---- MODULE Spec2Model ----
(***************************************************************************)
(* Model of the ICT watchlist tool's backtester and scorer.                *)
(*                                                                         *)
(*   Spec      : one journal row's way through the backtest:               *)
(*               _parse_row -> fetch_bars -> simulate_outcome, the latter  *)
(*               one loop iteration (one candle) per step.                 *)
(*   LoadSpec  : load_trades over a whole journal file.                    *)
(*   ScoreSpec : ranking.score over confluence / bias inputs.              *)
(*                                                                         *)
(* Numbers.  Prices are integers (think of them as dollars).  Position     *)
(* sizes are counted in quarters of the original size (1.0 = 4, 0.5 = 2,   *)
(* 0.25 = 1), which is exact for every value the code can produce.         *)
(* profit_R(price) is kept as its numerator mv (the denominator is the     *)
(* trade's constant R), so the variable realized_R holds the code's        *)
(* realized_R multiplied by 4*R, an exact rational representation:         *)
(* realized_R(code) = a/b  <=>  realized_R(model) * b = a * 4 * R.         *)
(***************************************************************************)
EXTENDS Integers, Sequences, FiniteSets, TLC

\* ------------------------------------------------------------- bounds
MaxBars == 3
MaxRows == 2
MaxRuns == 2

\* ---------------------------------------------------- program constants
Full == 4
Half == 2
Quarter == 1

\* ------------------------------------------------------------ CSV cells
\* A cell of a csv.DictReader row: a decimal number's text, other text, a
\* timestamp text (s names its format, v its wall-clock minute), "" or None.
Num(n) == [k |-> "num", v |-> n, s |-> ""]
Str(x) == [k |-> "str", v |-> 0, s |-> x]
TsCell(fmt, t) == [k |-> "ts", v |-> t, s |-> fmt]
EmptyCell == [k |-> "empty", v |-> 0, s |-> ""]
NoneCell == [k |-> "none", v |-> 0, s |-> ""]

\* v in (None, "")
Blank(c) == c.k \in {"none", "empty"}

\* str.strip(), str.upper(), str.lower() on the texts the journal rows carry
Strip(x) == IF x = " " THEN "" ELSE x
Upper(x) == IF x = "spy" THEN "SPY" ELSE x
Lower(x) == IF x = "LONG" THEN "long" ELSE x

\* (pick(...) or "") as text, before .strip()
TextOf(c) == IF Blank(c) THEN "" ELSE IF c.k = "str" THEN c.s ELSE "#"

\* pick(*names, default): the first named column that is present and not blank
RECURSIVE pick(_, _, _)
pick(r, names, default) ==
    IF names = <<>> THEN default
    ELSE IF Head(names) \in DOMAIN r /\ ~Blank(r[Head(names)]) THEN r[Head(names)]
    ELSE pick(r, Tail(names), default)

\* float(x) succeeds
IsFloat(c) == c.k = "num"

\* The timestamp formats tried in order, then the date-only last resort
TimedFormats == {"pt_sec", "pt_min", "iso_tz_sec", "iso_tz_min", "iso_sec", "iso_min"}
DateOnlyFormats == {"date", "date_junk"}
DefaultMinute == 390

TsParses(c) == c.k = "ts" /\ c.s \in (TimedFormats \cup DateOnlyFormats)
TsValue(c) ==
    IF c.s \in TimedFormats THEN c.v
    ELSE (c.v \div 1440) * 1440 + DefaultMinute

\* ---------------------------------------------------------------- Trade
NoTrade ==
    [ts |-> 0, symbol |-> "", direction |-> "", entry |-> 0, stop |-> 0,
     t1 |-> 0, t2 |-> 0, t3 |-> 0, t4 |-> 0, kind |-> "None"]

Abs(x) == IF x < 0 THEN -x ELSE x

risk_R(t) == Abs(t.entry - t.stop)

is_long(t) == t.direction \in {"long", "bull", "bullish", "buy"}

is_short(t) == ~is_long(t)

\* the last line of _parse_row: tr if tr.risk_R > 0 else None
RiskOk_NonNegative(t) == risk_R(t) >= 0
RiskOk(t) == risk_R(t) > 0

_parse_row(r) ==
    LET ts_raw    == Strip(TextOf(pick(r, <<"timestamp_pt", "timestamp", "time">>, NoneCell)))
        ts_cell   == pick(r, <<"timestamp_pt", "timestamp", "time">>, NoneCell)
        sym       == Upper(Strip(TextOf(pick(r, <<"symbol", "ticker">>, NoneCell))))
        direction == Lower(Strip(TextOf(pick(r, <<"direction", "dir">>, NoneCell))))
        entry     == pick(r, <<"entry">>, NoneCell)
        stop      == pick(r, <<"stop">>, NoneCell)
        t1        == pick(r, <<"t1", "T1">>, NoneCell)
        t2        == pick(r, <<"t2", "T2">>, NoneCell)
        t3        == pick(r, <<"t3", "T3">>, NoneCell)
        t4        == pick(r, <<"t4", "T4">>, NoneCell)
        kind      == Strip(TextOf(pick(r, <<"kind", "type">>, Str("entry"))))
        nums      == <<entry, stop, t1, t2, t3, t4>>
    IN  IF ts_raw = "" \/ sym = "" \/ direction = ""
           \/ \E j \in 1..6 : Blank(nums[j])
        THEN NoTrade
        ELSE IF \E j \in 1..6 : ~IsFloat(nums[j])
        THEN NoTrade
        ELSE IF ~TsParses(ts_cell)
        THEN NoTrade
        ELSE LET tr == [ts |-> TsValue(ts_cell), symbol |-> sym, direction |-> direction,
                        entry |-> entry.v, stop |-> stop.v,
                        t1 |-> t1.v, t2 |-> t2.v, t3 |-> t3.v, t4 |-> t4.v,
                        kind |-> kind]
             IN  IF RiskOk(tr) THEN tr ELSE NoTrade

\* --------------------------------------------------------- journal rows
JRow(ts, sym, dir, entry, stop, t1, t2, t3, t4) ==
    [timestamp_pt |-> ts, symbol |-> sym, direction |-> dir, entry |-> entry,
     stop |-> stop, t1 |-> t1, t2 |-> t2, t3 |-> t3, t4 |-> t4, kind |-> Str("entry")]

\* A row of a trade entered at 100: sgn = 1 for targets above, -1 for below;
\* lad gives the four targets' distances from the entry.
LadderRow(dir, sgn, stop, lad) ==
    JRow(TsCell("pt_min", 390), Str("SPY"), Str(dir), Num(100), Num(stop),
         Num(100 + sgn * lad[1]), Num(100 + sgn * lad[2]),
         Num(100 + sgn * lad[3]), Num(100 + sgn * lad[4]))

PureLadder == <<2, 4, 6, 8>>

\* pure-R ladder; T3 = T4; T1 a far liquidity level; T3 and T4 swapped
Ladders == {PureLadder, <<2, 4, 6, 6>>, <<8, 4, 6, 8>>, <<2, 4, 8, 6>>}

SimRows ==
    {LadderRow("long", 1, 98, lad) : lad \in Ladders}
    \cup {LadderRow("short", -1, 102, lad) : lad \in Ladders}
    \cup {LadderRow("buy", 1, 98, PureLadder),       \* an alias of long
          LadderRow("long", 1, 99, PureLadder),      \* R = 1
          LadderRow("long", 1, 102, PureLadder),     \* stop on the wrong side
          LadderRow("long", 1, 100, PureLadder),     \* entry = stop
          [LadderRow("long", 1, 98, PureLadder) EXCEPT !.t4 = EmptyCell]}

\* ------------------------------------------------------------- candles
Bar(hi, lo, cl) == [high |-> hi, low |-> lo, close |-> cl]

Candles ==
    {Bar(103, 99, 101), Bar(101, 99, 100), Bar(105, 101, 104), Bar(102, 101, 102),
     Bar(107, 101, 106), Bar(109, 101, 108), Bar(109, 97, 100),
     Bar(99, 98, 98), Bar(99, 95, 96), Bar(99, 91, 92)}

RECURSIVE SeqsUpTo(_, _)
SeqsUpTo(S, n) ==
    IF n = 0 THEN {<<>>}
    ELSE LET shorter == SeqsUpTo(S, n - 1)
         IN  shorter \cup {Append(q, x) : q \in {p \in shorter : Len(p) = n - 1}, x \in S}

Frames == SeqsUpTo(Candles, MaxBars)

\* ===================================================== simulate_outcome
VARIABLES
    row,            \* the journal row read by csv.DictReader
    tr,             \* the Trade parsed from it (NoTrade: None)
    df,             \* the candle frame fetch_bars returned
    pc,             \* where the row's processing stands
    i,              \* index of the candle the loop is at (1-based)
    remain,         \* remaining size, in quarters
    realized_R,     \* realized R, times 4*R
    hit_seq,
    stop_level,
    moved_to_be,
    t3_or_t4_left,  \* in quarters
    t3_t4_done,
    stop_hit,       \* the returned dict's stop_hit
    last_dt         \* the returned dict's last_dt: a candle index, 0 for None

\* load_trades
VARIABLES
    exists,         \* os.path.exists(JOURNAL_PATH)
    journal,        \* the rows of the journal file, in file order
    limit,          \* load_trades' limit (0: None)
    rdr,            \* the DictReader's position: the next row (1-based)
    trades,         \* the list being built
    loaded,         \* load_trades' return value
    lpc

\* ranking.score
VARIABLES
    confluence, bias, atr_like, spread_ok,   \* score's arguments
    sc,             \* the value score returned
    runs,           \* how many times score ran on these arguments
    spc

loadVars == <<exists, journal, limit, rdr, trades, loaded, lpc>>

scoreVars == <<confluence, bias, atr_like, spread_ok, sc, runs, spc>>

simVars ==
    <<row, tr, df, pc, i, remain, realized_R, hit_seq, stop_level, moved_to_be,
      t3_or_t4_left, t3_t4_done, stop_hit, last_dt>>

simLocals ==
    <<i, remain, realized_R, hit_seq, stop_level, moved_to_be, t3_or_t4_left,
      t3_t4_done, stop_hit, last_dt>>

\* _targets_from_R
VARIABLES
    t_entry, t_stop,    \* prices, in half cents
    t_liq,              \* the liquidity levels passed in, an ascending list
    t_targets,          \* the list returned
    tpc

tgtVars == <<t_entry, t_stop, t_liq, t_targets, tpc>>

TargetsIdle ==
    /\ t_entry = 0 /\ t_stop = 0 /\ t_liq = <<>> /\ t_targets = <<>> /\ tpc = "idle"

\* analyze_symbol
VARIABLES
    a_bos,          \* bos_list: the BOS events, in bar order
    a_fvg,          \* fvg_list
    a_ob,           \* ob_list
    a_eq,           \* eq_liq
    a_entry,        \* entry (0: None), in half cents
    a_stop,         \* stop (0: None)
    a_dir,          \* direction ("none": None)
    a_zones,        \* zones
    a_bias,         \* bias
    a_ret,          \* the value returned
    apc

anVars == <<a_bos, a_fvg, a_ob, a_eq, a_entry, a_stop, a_dir, a_zones, a_bias, a_ret, apc>>

\* analyze_symbol's return value None
NoSetup == [symbol |-> "None"]

NoBias == [ddoi |-> "None", opex_week |-> "None", earnings_soon |-> "None"]

AnalyzeIdle ==
    /\ a_bos = <<>> /\ a_fvg = <<>> /\ a_ob = <<>> /\ a_eq = <<>>
    /\ a_entry = 0 /\ a_stop = 0 /\ a_dir = "none" /\ a_zones = <<>>
    /\ a_bias = NoBias /\ a_ret = NoSetup /\ apc = "idle"

\* generate
VARIABLES
    g_analysis,     \* what analyze_symbol does for each universe symbol
    g_cap,          \* MAX_SYMBOLS
    g_limit,        \* MAX_CONCURRENCY
    g_sem,          \* the semaphore's value
    g_w,            \* each worker's position: "waiting", "inside", "done"
    g_res,          \* what each worker returned, by position in syms
    g_order,        \* the workers in the order they finished
    g_rows,         \* the list generate returns
    g_client,       \* the Polygon client: "none", "open", "closed"
    gpc

genVars ==
    <<g_analysis, g_cap, g_limit, g_sem, g_w, g_res, g_order, g_rows, g_client, gpc>>

GenerateIdle ==
    /\ g_analysis = <<>> /\ g_cap = 0 /\ g_limit = 0 /\ g_sem = 0 /\ g_w = <<>>
    /\ g_res = <<>> /\ g_order = <<>> /\ g_rows = <<>> /\ g_client = "none"
    /\ gpc = "idle"

\* backtest_once
VARIABLES
    b_trades,       \* per loaded trade, what fetch_bars and simulate_outcome do
    b_limit,        \* DEF_CONC
    b_sem,
    b_w,
    b_results,      \* results, in the order the workers appended
    b_ret,          \* the dict returned
    b_client,
    bpc

btVars == <<b_trades, b_limit, b_sem, b_w, b_results, b_ret, b_client, bpc>>

NoReport == [count |-> -1]

BacktestIdle ==
    /\ b_trades = <<>> /\ b_limit = 0 /\ b_sem = 0 /\ b_w = <<>>
    /\ b_results = <<>> /\ b_ret = NoReport /\ b_client = "none" /\ bpc = "idle"

\* is_opex_week
VARIABLES
    o_first,        \* weekday of the 1st of d's month (0 = Monday)
    o_len,          \* days in the month
    o_day,          \* d's day of the month
    o_ret,          \* the value returned ("None": not yet)
    opc

opexVars == <<o_first, o_len, o_day, o_ret, opc>>

OpexIdle == o_first = 0 /\ o_len = 0 /\ o_day = 0 /\ o_ret = "None" /\ opc = "idle"

\* swings
VARIABLES
    w_bars,         \* the frame's rows: high and low, in index order
    w_n,            \* n
    w_i,            \* the loop's i (0-based, as in the code)
    w_highs,        \* highs: positions in the index
    w_lows,
    wpc

swVars == <<w_bars, w_n, w_i, w_highs, w_lows, wpc>>

SwingsIdle ==
    /\ w_bars = <<>> /\ w_n = 0 /\ w_i = 0 /\ w_highs = <<>> /\ w_lows = <<>>
    /\ wpc = "idle"

\* bos
VARIABLES
    k_bars,         \* the frame's rows: high, low and close, in index order
    k_highs,        \* swing_highs: positions in the index, ascending
    k_lows,         \* swing_lows
    k_idx,          \* the position of the row the loop is at (0-based)
    k_last_hi,      \* last_sw_hi (-1: None)
    k_last_lo,      \* last_sw_lo (-1: None)
    k_out,          \* out
    kpc

bosVars == <<k_bars, k_highs, k_lows, k_idx, k_last_hi, k_last_lo, k_out, kpc>>

BosIdle ==
    /\ k_bars = <<>> /\ k_highs = <<>> /\ k_lows = <<>> /\ k_idx = 0
    /\ k_last_hi = -1 /\ k_last_lo = -1 /\ k_out = <<>> /\ kpc = "idle"

\* journal.append_row, append_rows, read_last
VARIABLES
    j_exists,       \* os.path.exists(PATH)
    j_file,         \* the lines of the file at PATH
    j_written,      \* the rows handed to append_row / append_rows, in call order
    j_n,            \* n, when the latest call was read_last(n) (else -1)
    j_ret,          \* what that call returned
    jpc

jrnVars == <<j_exists, j_file, j_written, j_n, j_ret, jpc>>

JournalIdle ==
    /\ j_exists = FALSE /\ j_file = <<>> /\ j_written = <<>>
    /\ j_n = -1 /\ j_ret = <<>> /\ jpc = "idle"

\* equal_highs_lows
VARIABLES
    e_df,           \* the frame's rows: high and low, in cents
    e_tol,          \* tol, in millionths
    e_i,            \* the loop's i
    e_eqh,          \* eqh
    e_eql,          \* eql
    e_ret,          \* the returned pair
    epc

eqVars == <<e_df, e_tol, e_i, e_eqh, e_eql, e_ret, epc>>

NoLevels == [eqh |-> <<-1>>, eql |-> <<-1>>]

EqualIdle ==
    /\ e_df = <<>> /\ e_tol = 0 /\ e_i = 0 /\ e_eqh = <<>> /\ e_eql = <<>>
    /\ e_ret = NoLevels /\ epc = "idle"

\* notify: _post and the senders
VARIABLES
    n_fn,           \* the sender called: "watchlist" or "entry"
    n_script,       \* what the webhook answers, attempt by attempt
    n_posts,        \* the POSTs made so far
    n_result,       \* "none", "ok" or "raised"
    npc

notVars == <<n_fn, n_script, n_posts, n_result, npc>>

NotifyIdle ==
    /\ n_fn = "none" /\ n_script = <<>> /\ n_posts = 0 /\ n_result = "none"
    /\ npc = "idle"

\* post_watchlist
VARIABLES
    p_kind,         \* kind
    p_rows,         \* what generate(kind) returns
    p_blocking,     \* whether today_events_pt() reports a blocking event
    p_fail,         \* the call that raises, if one does
    p_res,          \* the posts and journal rows the call made, and how it ended
    ppc

postVars == <<p_kind, p_rows, p_blocking, p_fail, p_res, ppc>>

NoFail == [at |-> "none", k |-> 0]

NoPost == [wl |-> <<>>, entries |-> <<>>, journal |-> <<>>, exc |-> "pending"]

PostIdle ==
    /\ p_kind = "none" /\ p_rows = <<>> /\ p_blocking = FALSE /\ p_fail = NoFail
    /\ p_res = NoPost /\ ppc = "idle"

\* scheduler
VARIABLES
    h_now,          \* the clock in PT: day, minute of the day, second
    h_last,         \* last: per slot, the day of its last completed run (-1: None)
    h_saved,        \* the keys _save_last_run has written
    h_errors,       \* the "scheduler error" lines logged
    h_runs,         \* per slot, the runs of its job started on the day of h_now
    h_sent,         \* per slot, the watchlist posts delivered on that day
    hpc

schedVars == <<h_now, h_last, h_saved, h_errors, h_runs, h_sent, hpc>>

Slots == {"premarket", "evening", "weekly"}

SchedIdle ==
    /\ h_now = [day |-> 0, minute |-> 0, sec |-> 0]
    /\ h_last = [s \in Slots |-> -1] /\ h_saved = {} /\ h_errors = 0
    /\ h_runs = [s \in Slots |-> 0] /\ h_sent = [s \in Slots |-> 0]
    /\ hpc = "idle"

\* live_loop
VARIABLES
    v_rows,         \* what live_once() returns
    v_watch,        \* the symbols of watch, in dict order
    v_posted,       \* posted
    v_polled,       \* the symbols of this iteration's tasks
    v_alerts,       \* the send_entry_detail calls, each with its iteration's
                    \* clock and macro block
    vpc

liveVars == <<v_rows, v_watch, v_posted, v_polled, v_alerts, vpc>>

LiveIdle ==
    /\ v_rows = <<>> /\ v_watch = <<>> /\ v_posted = {} /\ v_polled = {}
    /\ v_alerts = <<>> /\ vpc = "idle"

\* the variables of the scanner, the backtest summary and the detectors
restVars ==
    <<tgtVars, anVars, genVars, btVars, opexVars, swVars, bosVars, jrnVars, eqVars, notVars, postVars, schedVars, liveVars>>

RestIdle ==
    /\ TargetsIdle /\ AnalyzeIdle /\ GenerateIdle /\ BacktestIdle
    /\ OpexIdle /\ SwingsIdle
    /\ BosIdle
    /\ JournalIdle
    /\ EqualIdle
    /\ NotifyIdle
    /\ PostIdle
    /\ SchedIdle
    /\ LiveIdle

\* every such component but those of cs is idle
RestIdleBut(cs) ==
    /\ IF "targets" \in cs THEN TRUE ELSE TargetsIdle
    /\ IF "analyze" \in cs THEN TRUE ELSE AnalyzeIdle
    /\ IF "generate" \in cs THEN TRUE ELSE GenerateIdle
    /\ IF "backtest" \in cs THEN TRUE ELSE BacktestIdle
    /\ IF "opex" \in cs THEN TRUE ELSE OpexIdle
    /\ IF "swings" \in cs THEN TRUE ELSE SwingsIdle
    /\ IF "bos" \in cs THEN TRUE ELSE BosIdle
    /\ IF "journal" \in cs THEN TRUE ELSE JournalIdle
    /\ IF "equal" \in cs THEN TRUE ELSE EqualIdle
    /\ IF "notify" \in cs THEN TRUE ELSE NotifyIdle
    /\ IF "post" \in cs THEN TRUE ELSE PostIdle
    /\ IF "sched" \in cs THEN TRUE ELSE SchedIdle
    /\ IF "live" \in cs THEN TRUE ELSE LiveIdle

tgtOthers ==
    <<simVars, loadVars, scoreVars, anVars, genVars, btVars, opexVars, swVars, bosVars, jrnVars, eqVars, notVars, postVars, schedVars, liveVars>>

anOthers ==
    <<simVars, loadVars, scoreVars, tgtVars, genVars, btVars, opexVars, swVars, bosVars, jrnVars, eqVars, notVars, postVars, schedVars, liveVars>>

genOthers ==
    <<simVars, loadVars, scoreVars, tgtVars, anVars, btVars, opexVars, swVars, bosVars, jrnVars, eqVars, notVars, postVars, schedVars, liveVars>>

btOthers ==
    <<simVars, loadVars, scoreVars, tgtVars, anVars, genVars, opexVars, swVars, bosVars, jrnVars, eqVars, notVars, postVars, schedVars, liveVars>>

opexOthers ==
    <<simVars, loadVars, scoreVars, tgtVars, anVars, genVars, btVars, swVars, bosVars, jrnVars, eqVars, notVars, postVars, schedVars, liveVars>>

swOthers ==
    <<simVars, loadVars, scoreVars, tgtVars, anVars, genVars, btVars, opexVars, bosVars, jrnVars, eqVars, notVars, postVars, schedVars, liveVars>>

bosOthers ==
    <<simVars, loadVars, scoreVars, tgtVars, anVars, genVars, btVars, opexVars, swVars, jrnVars, eqVars, notVars, postVars, schedVars, liveVars>>

jrnOthers ==
    <<simVars, loadVars, scoreVars, tgtVars, anVars, genVars, btVars, opexVars, swVars, bosVars, eqVars, notVars, postVars, schedVars, liveVars>>

eqOthers ==
    <<simVars, loadVars, scoreVars, tgtVars, anVars, genVars, btVars, opexVars, swVars, bosVars, jrnVars, notVars, postVars, schedVars, liveVars>>

notOthers ==
    <<simVars, loadVars, scoreVars, tgtVars, anVars, genVars, btVars, opexVars, swVars, bosVars, jrnVars, eqVars, postVars, schedVars, liveVars>>

postOthers ==
    <<simVars, loadVars, scoreVars, tgtVars, anVars, genVars, btVars, opexVars, swVars, bosVars, jrnVars, eqVars, notVars, schedVars, liveVars>>

schedOthers ==
    <<simVars, loadVars, scoreVars, tgtVars, anVars, genVars, btVars, opexVars, swVars, bosVars, jrnVars, eqVars, notVars, postVars, liveVars>>

liveOthers ==
    <<simVars, loadVars, scoreVars, tgtVars, anVars, genVars, btVars, opexVars, swVars, bosVars, jrnVars, eqVars, notVars, postVars, schedVars>>

\* profit_R(price), as the numerator over R
profit_R_FromStop(t, price) ==
    IF risk_R(t) > 0
    THEN (IF is_long(t) THEN price - t.stop ELSE t.stop - price)
    ELSE 0
profit_R(t, price) ==
    IF risk_R(t) > 0
    THEN (IF is_long(t) THEN price - t.entry ELSE t.entry - price)
    ELSE 0

\* 1) Stop first: the bar pierces the stop level against the position
StopHit_Strict(t, bar, level) ==
    IF is_long(t) THEN bar.low < level ELSE bar.high > level
StopHit(t, bar, level) ==
    IF is_long(t) THEN bar.low <= level ELSE bar.high >= level

\* (tr.is_long and hi >= lvl) or (tr.is_short and lo <= lvl)
Touch(t, bar, lvl) ==
    (is_long(t) /\ bar.high >= lvl) \/ (is_short(t) /\ bar.low <= lvl)

\* lvl = tr.t4 if (hit_t4 and (not hit_t3)) else tr.t3
T34Level_PreferT4(t, hit_t3, hit_t4) == IF hit_t4 THEN t.t4 ELSE t.t3
T34Level(t, hit_t3, hit_t4) == IF hit_t4 /\ ~hit_t3 THEN t.t4 ELSE t.t3

\* the stop level after a T1 hit: if not moved_to_be: stop_level = tr.entry
StopAfterT1_Unmoved(t, level, moved) == level
StopAfterT1(t, level, moved) == IF ~moved THEN t.entry ELSE level

\* the dict returned for an empty frame
EmptyResult_Stopped == [realized_R |-> 0, hit_seq |-> <<>>, stop_hit |-> TRUE, last_dt |-> 0]
EmptyResult == [realized_R |-> 0, hit_seq |-> <<>>, stop_hit |-> FALSE, last_dt |-> 0]

\* 4) Window ended: the remaining size marked at the last close
MarkAtClose_FirstClose(t, frame, size) ==
    IF size > 0 THEN profit_R(t, frame[1].close) * size ELSE 0
MarkAtClose(t, frame, size) ==
    IF size > 0 THEN profit_R(t, frame[Len(frame)].close) * size ELSE 0

\* nothing of the load / the score / the simulation is running
LoadIdle ==
    /\ exists = FALSE /\ journal = <<>> /\ limit = 0 /\ rdr = 0
    /\ trades = <<>> /\ loaded = <<>> /\ lpc = "idle"

ScoreIdle ==
    /\ confluence = <<>> /\ bias = <<>> /\ atr_like = 0 /\ spread_ok = FALSE
    /\ sc = 0 /\ runs = 0 /\ spc = "idle"

Init ==
    /\ LoadIdle
    /\ ScoreIdle
    /\ RestIdle
    /\ row \in SimRows
    /\ tr = NoTrade
    /\ df = <<>>
    /\ pc = "parse"
    /\ i = 0
    /\ remain = Full
    /\ realized_R = 0
    /\ hit_seq = <<>>
    /\ stop_level = 0
    /\ moved_to_be = FALSE
    /\ t3_or_t4_left = Quarter
    /\ t3_t4_done = FALSE
    /\ stop_hit = FALSE
    /\ last_dt = 0

\* load_trades' loop body: t = _parse_row(r); if t: trades.append(t)
ParseRow ==
    /\ UNCHANGED <<loadVars, scoreVars, restVars>>
    /\ pc = "parse"
    /\ tr' = _parse_row(row)
    /\ pc' = IF tr' = NoTrade THEN "skipped" ELSE "fetch"
    /\ UNCHANGED <<row, df>>
    /\ UNCHANGED simLocals

\* worker: df = await fetch_bars(...), any frame of candles at/after the trade
FetchBars ==
    /\ UNCHANGED <<loadVars, scoreVars, restVars>>
    /\ pc = "fetch"
    /\ \E frame \in Frames : df' = frame
    /\ pc' = "sim"
    /\ UNCHANGED <<row, tr>>
    /\ UNCHANGED simLocals

\* worker: fetch_bars raised; the except branch records an error row
FetchFails ==
    /\ UNCHANGED <<loadVars, scoreVars, restVars>>
    /\ pc = "fetch"
    /\ pc' = "error"
    /\ UNCHANGED <<row, tr, df>>
    /\ UNCHANGED simLocals

\* simulate_outcome: if df.empty: return {...}
SimEmpty ==
    /\ UNCHANGED <<loadVars, scoreVars, restVars>>
    /\ pc = "sim"
    /\ df = <<>>
    /\ realized_R' = EmptyResult.realized_R
    /\ hit_seq' = EmptyResult.hit_seq
    /\ stop_hit' = EmptyResult.stop_hit
    /\ last_dt' = EmptyResult.last_dt
    /\ pc' = "done"
    /\ UNCHANGED <<row, tr, df, i, remain, stop_level, moved_to_be, t3_or_t4_left, t3_t4_done>>

\* simulate_outcome: the locals' initialisation, up to the loop's first candle
SimBegin ==
    /\ UNCHANGED <<loadVars, scoreVars, restVars>>
    /\ pc = "sim"
    /\ df # <<>>
    /\ remain' = Full
    /\ realized_R' = 0
    /\ hit_seq' = <<>>
    /\ stop_level' = tr.stop
    /\ moved_to_be' = FALSE
    /\ t3_or_t4_left' = Quarter
    /\ t3_t4_done' = FALSE
    /\ stop_hit' = FALSE
    /\ i' = 1
    /\ pc' = "loop"
    /\ UNCHANGED <<row, tr, df, last_dt>>

\* one loop iteration that ends in the stop branch's return
SimStop ==
    /\ UNCHANGED <<loadVars, scoreVars, restVars>>
    /\ pc = "loop"
    /\ i <= Len(df)
    /\ StopHit(tr, df[i], stop_level)
    /\ realized_R' = realized_R + profit_R(tr, stop_level) * remain
    /\ stop_hit' = TRUE
    /\ last_dt' = i
    /\ pc' = "done"
    /\ UNCHANGED <<row, tr, df, i, remain, hit_seq, stop_level, moved_to_be,
                   t3_or_t4_left, t3_t4_done>>

\* one loop iteration past the stop check: T1, T2, T3-or-T4, early exit
SimTargets ==
    /\ UNCHANGED <<loadVars, scoreVars, restVars>>
    /\ pc = "loop"
    /\ i <= Len(df)
    /\ ~StopHit(tr, df[i], stop_level)
    /\ LET bar    == df[i]
           hit1   == remain > 0 /\ Touch(tr, bar, tr.t1)
           rr1    == IF hit1 THEN realized_R + profit_R(tr, tr.t1) * Half ELSE realized_R
           rem1   == IF hit1 THEN remain - Half ELSE remain
           seq1   == IF hit1 THEN Append(hit_seq, "T1") ELSE hit_seq
           lvl1   == IF hit1 THEN StopAfterT1(tr, stop_level, moved_to_be) ELSE stop_level
           be1    == moved_to_be \/ hit1
           hit2   == rem1 > 0 /\ Touch(tr, bar, tr.t2)
           rr2    == IF hit2 THEN rr1 + profit_R(tr, tr.t2) * Quarter ELSE rr1
           rem2   == IF hit2 THEN rem1 - Quarter ELSE rem1
           seq2   == IF hit2 THEN Append(seq1, "T2") ELSE seq1
           try34  == (~t3_t4_done) /\ t3_or_t4_left > 0 /\ rem2 > 0
           hit_t3 == Touch(tr, bar, tr.t3)
           hit_t4 == Touch(tr, bar, tr.t4)
           hit34  == try34 /\ (hit_t3 \/ hit_t4)
           lvl    == T34Level(tr, hit_t3, hit_t4)
           rr3    == IF hit34 THEN rr2 + profit_R(tr, lvl) * t3_or_t4_left ELSE rr2
           rem3   == IF hit34 THEN rem2 - t3_or_t4_left ELSE rem2
           seq3   == IF hit34 THEN Append(seq2, IF lvl = tr.t4 THEN "T4" ELSE "T3") ELSE seq2
       IN  /\ realized_R' = rr3
           /\ remain' = rem3
           /\ hit_seq' = seq3
           /\ stop_level' = lvl1
           /\ moved_to_be' = be1
           /\ t3_or_t4_left' = IF hit34 THEN 0 ELSE t3_or_t4_left
           /\ t3_t4_done' = (t3_t4_done \/ hit34)
           /\ IF rem3 <= 0
              THEN pc' = "done" /\ last_dt' = i /\ i' = i
              ELSE pc' = "loop" /\ last_dt' = last_dt /\ i' = i + 1
    /\ stop_hit' = FALSE
    /\ UNCHANGED <<row, tr, df>>

\* the loop ran out of candles: mark the rest at the last close and return
WindowEnd ==
    /\ UNCHANGED <<loadVars, scoreVars, restVars>>
    /\ pc = "loop"
    /\ i > Len(df)
    /\ realized_R' = realized_R + MarkAtClose(tr, df, remain)
    /\ stop_hit' = FALSE
    /\ last_dt' = Len(df)
    /\ pc' = "done"
    /\ UNCHANGED <<row, tr, df, i, remain, hit_seq, stop_level, moved_to_be,
                   t3_or_t4_left, t3_t4_done>>

Next ==
    \/ ParseRow
    \/ FetchBars
    \/ FetchFails
    \/ SimEmpty
    \/ SimBegin
    \/ SimStop
    \/ SimTargets
    \/ WindowEnd

vars == <<simVars, loadVars, scoreVars, restVars>>

Spec == Init /\ [][Next]_vars

\* ================================================ simulate_outcome: claims
\* What hit_seq records: each label's level, size (quarters) and realized gain
LevelOf(t, label) ==
    CASE label = "T1" -> t.t1
      [] label = "T2" -> t.t2
      [] label = "T3" -> t.t3
      [] OTHER -> t.t4

SizeOf(label) == IF label = "T1" THEN 2 ELSE 1

PnL(t, price) == IF is_long(t) THEN price - t.entry ELSE t.entry - price

RECURSIVE SumSize(_)
SumSize(q) == IF q = <<>> THEN 0 ELSE SizeOf(Head(q)) + SumSize(Tail(q))

RECURSIVE SumGain(_, _)
SumGain(t, q) ==
    IF q = <<>> THEN 0
    ELSE PnL(t, LevelOf(t, Head(q))) * SizeOf(Head(q)) + SumGain(t, Tail(q))

Count(label, q) == Cardinality({k \in 1..Len(q) : q[k] = label})

\* the labels the step appended
NewHits == SubSeq(hit_seq', Len(hit_seq) + 1, Len(hit_seq'))

AtBar == pc = "loop" /\ i <= Len(df)

\* the bar at hand reaches the current stop level
ReachesStop ==
    IF is_long(tr) THEN df[i].low <= stop_level ELSE df[i].high >= stop_level

TouchesAllTargets(bar) ==
    \A lvl \in {tr.t1, tr.t2, tr.t3, tr.t4} :
        IF is_long(tr) THEN bar.high >= lvl ELSE bar.low <= lvl

\* C1: the stop is checked before any target on each bar: a bar that reaches the
\* current stop level ends the simulation on that bar with stop_hit = true, adds
\* profit_R(stop level) x remaining size to realized_R and appends nothing to
\* hit_seq, whatever targets the bar also touches; and only such a bar stops out.
C1_StopFirst ==
    [][ AtBar =>
          /\ ReachesStop =>
                /\ pc' = "done" /\ stop_hit' /\ last_dt' = i
                /\ hit_seq' = hit_seq
                /\ realized_R' = realized_R + PnL(tr, stop_level) * remain
          /\ stop_hit' => ReachesStop ]_vars

C1_Witness ==
    /\ pc = "done" /\ stop_hit /\ last_dt = 2
    /\ TouchesAllTargets(df[2])
    /\ realized_R # 0

\* C2: the size fractions exited at T1, T2, T3/T4 never sum to more than 1.0
\* (remaining size stays within [0,1]), and sum to exactly 1.0 with the rest
\* marked at the close when the window ends without a stop-out.
C2_SizeWithinOne ==
    pc \in {"loop", "done"} =>
        /\ remain >= 0 /\ remain <= Full
        /\ SumSize(hit_seq) <= Full
        /\ SumSize(hit_seq) + remain = Full

\* C3: each of T1 and T2 is realized on its first touch only: at most one "T1"
\* (0.5 in total) and at most one "T2" (0.25 in total) in hit_seq.
C3_FirstTouchOnly ==
    /\ Count("T1", hit_seq) <= 1
    /\ Count("T2", hit_seq) <= 1

\* the step awards the final 0.25 slice
AwardsFinalSlice == t3_t4_done' /\ ~t3_t4_done

TouchesLevel(lvl) == IF is_long(tr) THEN df[i].high >= lvl ELSE df[i].low <= lvl

\* C4 (as amended): the final 0.25 slice is awarded at most once; when the bar
\* that takes it touches both the T3 and the T4 level it is realized at T3
\* (profit_R(t3) x 0.25) and labelled "T3" (the label reads "T4" only when
\* t3 = t4); a bar that touches T4 alone realizes it at T4.
C4_BothTouchedTakesT3 ==
    [][ AtBar =>
          /\ t3_t4_done => Count("T3", NewHits) + Count("T4", NewHits) = 0
          /\ AwardsFinalSlice =>
                /\ Count("T3", hit_seq') + Count("T4", hit_seq') = 1
                /\ NewHits # <<>>
                /\ NewHits[Len(NewHits)] \in {"T3", "T4"}
          /\ (AwardsFinalSlice /\ TouchesLevel(tr.t3) /\ TouchesLevel(tr.t4)) =>
                /\ NewHits[Len(NewHits)] = (IF tr.t3 = tr.t4 THEN "T4" ELSE "T3")
                /\ realized_R' - realized_R =
                      SumGain(tr, SubSeq(NewHits, 1, Len(NewHits) - 1))
                      + PnL(tr, tr.t3) * Quarter
          /\ (AwardsFinalSlice /\ ~TouchesLevel(tr.t3)) =>
                /\ NewHits[Len(NewHits)] = "T4"
                /\ realized_R' - realized_R =
                      SumGain(tr, SubSeq(NewHits, 1, Len(NewHits) - 1))
                      + PnL(tr, tr.t4) * Quarter ]_vars

\* C4 (as claimed): a bar touching both levels realizes the slice at T4.
C4_BothTouchedTakesT4 ==
    [][ (AtBar /\ AwardsFinalSlice /\ TouchesLevel(tr.t3) /\ TouchesLevel(tr.t4)) =>
          /\ NewHits[Len(NewHits)] = "T4"
          /\ realized_R' - realized_R =
                SumGain(tr, SubSeq(NewHits, 1, Len(NewHits) - 1))
                + PnL(tr, tr.t4) * Quarter ]_vars

C4_Witness ==
    /\ pc = "done" /\ ~stop_hit /\ remain <= 0
    /\ tr.t3 # tr.t4
    /\ hit_seq # <<>> /\ hit_seq[Len(hit_seq)] = "T3"
    /\ TouchesAllTargets(df[last_dt])

HasT1 == Count("T1", hit_seq) > 0

\* C5 (as amended): on every bar up to and including the one where T1 is first
\* hit the stop level is the trade's original stop, on every later bar it is the
\* entry price, so a stop-out after T1 adds exactly 0 R for the remaining size.
C5_BreakevenAfterT1 ==
    [][ AtBar =>
          /\ stop_level = (IF HasT1 THEN tr.entry ELSE tr.stop)
          /\ (stop_hit' /\ HasT1) => realized_R' = realized_R ]_vars

\* C5 (as claimed): the stop moves to the entry after the first target hit,
\* whichever target that is.
C5_BreakevenAfterFirstTarget ==
    [][ AtBar =>
          /\ stop_level = (IF hit_seq # <<>> THEN tr.entry ELSE tr.stop)
          /\ (stop_hit' /\ hit_seq # <<>>) => realized_R' = realized_R ]_vars

C5_Witness ==
    /\ pc = "done" /\ stop_hit /\ HasT1
    /\ last_dt >= 2
    /\ stop_level = tr.entry /\ stop_level # tr.stop
    /\ realized_R = SumGain(tr, hit_seq)

\* The scenario of C6: long 100 / stop 98 / targets 102, 104, 106, 108, over
\* [high 103 low 99; low 99, high below 102], simulated to its end.
C6_Scenario ==
    /\ pc = "done"
    /\ is_long(tr) /\ tr.entry = 100 /\ tr.stop = 98
    /\ tr.t1 = 102 /\ tr.t2 = 104 /\ tr.t3 = 106 /\ tr.t4 = 108
    /\ Len(df) = 2
    /\ df[1].high = 103 /\ df[1].low = 99
    /\ df[2].low = 99 /\ df[2].high < 102

\* C6 (as amended): the scenario returns realized_R = 0.5 (T1 is 1R away, on
\* half the size), hit_seq = ["T1"], stop_hit = True.
C6_ScenarioHalfR ==
    C6_Scenario =>
        /\ realized_R * 2 = 1 * 4 * risk_R(tr)
        /\ hit_seq = <<"T1">>
        /\ stop_hit

\* C6 (as claimed): the scenario returns realized_R = 1.0.
C6_ScenarioOneR ==
    C6_Scenario =>
        /\ realized_R * 1 = 1 * 4 * risk_R(tr)
        /\ hit_seq = <<"T1">>
        /\ stop_hit

C6_Witness == C6_Scenario /\ last_dt = 2

\* C7: candles exhausted with size left and no stop-out: stop_hit = false and
\* realized_R = the realized target slices + profit_R(last close) x remaining.
C7_MarkedAtLastClose ==
    (pc = "done" /\ df # <<>> /\ remain > 0 /\ last_dt = Len(df) /\ i > Len(df)) =>
        /\ ~stop_hit
        /\ realized_R = SumGain(tr, hit_seq) + PnL(tr, df[Len(df)].close) * remain

C7_Witness ==
    /\ pc = "done" /\ ~stop_hit /\ df # <<>> /\ remain > 0 /\ i > Len(df)
    /\ hit_seq # <<>>
    /\ df[Len(df)].close # tr.entry
    /\ df[Len(df)].close # df[1].close

\* C8: an empty candle sequence gives realized_R = 0, no hits, stop_hit = false
\* (and no last_dt), for every trade.
C8_EmptyFrame ==
    (pc = "done" /\ df = <<>>) =>
        /\ realized_R = 0 /\ hit_seq = <<>> /\ ~stop_hit /\ last_dt = 0

C8_Witness == pc = "done" /\ df = <<>> /\ is_short(tr)

\* =========================================================== load_trades
\* Column renamings a journal may carry (the aliases _parse_row accepts)
AliasRow(r) ==
    [time |-> r.timestamp_pt, ticker |-> Str("spy"), dir |-> Str("LONG"),
     entry |-> r.entry, stop |-> r.stop, t1 |-> EmptyCell, T1 |-> r.t1,
     T2 |-> r.t2, T3 |-> r.t3, T4 |-> r.t4, type |-> Str("entry")]

WithoutStop(r) ==
    [timestamp_pt |-> r.timestamp_pt, symbol |-> r.symbol, direction |-> r.direction,
     entry |-> r.entry, t1 |-> r.t1, t2 |-> r.t2, t3 |-> r.t3, t4 |-> r.t4,
     kind |-> r.kind]

GoodLong == LadderRow("long", 1, 98, PureLadder)

JournalRows ==
    {GoodLong,
     [LadderRow("short", -1, 102, PureLadder) EXCEPT !.timestamp_pt = TsCell("pt_sec", 380)],
     [GoodLong EXCEPT !.timestamp_pt = TsCell("date", 1450)],
     AliasRow([GoodLong EXCEPT !.timestamp_pt = TsCell("iso_tz_min", 385)]),
     LadderRow("long", 1, 100, PureLadder),                      \* entry = stop
     [LadderRow("short", -1, 100, PureLadder) EXCEPT !.timestamp_pt = TsCell("pt_sec", 380)],
     [GoodLong EXCEPT !.t4 = EmptyCell],
     [GoodLong EXCEPT !.t2 = Str("abc")],
     [GoodLong EXCEPT !.entry = NoneCell],
     WithoutStop(GoodLong),
     [GoodLong EXCEPT !.symbol = Str(" ")],
     [GoodLong EXCEPT !.timestamp_pt = TsCell("junk", 0)]}

Journals == SeqsUpTo(JournalRows, MaxRows)

\* trades.sort(key=lambda x: x.ts): a stable sort, oldest first
RECURSIVE InsertByTs(_, _)
InsertByTs(q, t) ==
    IF q = <<>> THEN <<t>>
    ELSE IF q[Len(q)].ts <= t.ts THEN Append(q, t)
    ELSE Append(InsertByTs(SubSeq(q, 1, Len(q) - 1), t), q[Len(q)])

RECURSIVE SortByTs(_)
SortByTs(q) ==
    IF q = <<>> THEN <<>>
    ELSE InsertByTs(SortByTs(SubSeq(q, 1, Len(q) - 1)), q[Len(q)])

\* trades[-limit:] if limit else trades
LastN(q, n) ==
    IF n = 0 THEN q
    ELSE IF n >= Len(q) THEN q
    ELSE SubSeq(q, Len(q) - n + 1, Len(q))

SimIdle ==
    /\ row = <<>> /\ tr = NoTrade /\ df = <<>> /\ pc = "idle"
    /\ i = 0 /\ remain = Full /\ realized_R = 0 /\ hit_seq = <<>> /\ stop_level = 0
    /\ moved_to_be = FALSE /\ t3_or_t4_left = Quarter /\ t3_t4_done = FALSE
    /\ stop_hit = FALSE /\ last_dt = 0

LoadInit ==
    /\ SimIdle
    /\ ScoreIdle
    /\ RestIdle
    /\ exists \in BOOLEAN
    /\ journal \in (IF exists THEN Journals ELSE {<<>>})
    /\ limit \in 0..MaxRows
    /\ rdr = 1
    /\ trades = <<>>
    /\ loaded = <<>>
    /\ lpc = "open"

\* if not os.path.exists(JOURNAL_PATH): return []
LoadMissing ==
    /\ UNCHANGED <<simVars, scoreVars, restVars>>
    /\ lpc = "open"
    /\ ~exists
    /\ loaded' = <<>>
    /\ lpc' = "done"
    /\ UNCHANGED <<exists, journal, limit, rdr, trades>>

\* one iteration of "for r in rdr": parse, append when a Trade came back
LoadRow ==
    /\ UNCHANGED <<simVars, scoreVars, restVars>>
    /\ lpc = "open"
    /\ exists
    /\ rdr <= Len(journal)
    /\ LET t == _parse_row(journal[rdr])
       IN  trades' = IF t # NoTrade THEN Append(trades, t) ELSE trades
    /\ rdr' = rdr + 1
    /\ UNCHANGED <<exists, journal, limit, loaded, lpc>>

\* the rows are exhausted: sort oldest first, keep the last `limit`
LoadFinish ==
    /\ UNCHANGED <<simVars, scoreVars, restVars>>
    /\ lpc = "open"
    /\ exists
    /\ rdr > Len(journal)
    /\ trades' = SortByTs(trades)
    /\ loaded' = LastN(trades', limit)
    /\ lpc' = "done"
    /\ UNCHANGED <<exists, journal, limit, rdr>>

LoadNext == LoadMissing \/ LoadRow \/ LoadFinish

LoadSpec == LoadInit /\ [][LoadNext]_vars

\* ------------------------------------------------------ load_trades: claims
\* the cell _parse_row reads for a field, under any of its column names
FieldCell(r, f) ==
    CASE f = "timestamp" -> pick(r, <<"timestamp_pt", "timestamp", "time">>, NoneCell)
      [] f = "symbol" -> pick(r, <<"symbol", "ticker">>, NoneCell)
      [] f = "direction" -> pick(r, <<"direction", "dir">>, NoneCell)
      [] f = "entry" -> pick(r, <<"entry">>, NoneCell)
      [] f = "stop" -> pick(r, <<"stop">>, NoneCell)
      [] f = "t1" -> pick(r, <<"t1", "T1">>, NoneCell)
      [] f = "t2" -> pick(r, <<"t2", "T2">>, NoneCell)
      [] f = "t3" -> pick(r, <<"t3", "T3">>, NoneCell)
      [] OTHER -> pick(r, <<"t4", "T4">>, NoneCell)

PriceFields == {"entry", "stop", "t1", "t2", "t3", "t4"}

RequiredFields == PriceFields \cup {"timestamp", "symbol", "direction"}

\* the row's entry equals its stop
ZeroRisk(r) ==
    /\ FieldCell(r, "entry").k = "num" /\ FieldCell(r, "stop").k = "num"
    /\ FieldCell(r, "entry").v = FieldCell(r, "stop").v

\* a required field is missing, or a price field is not a number
Defective(r) ==
    \/ \E f \in RequiredFields : FieldCell(r, f).k \in {"none", "empty"}
    \/ \E f \in PriceFields : FieldCell(r, f).k # "num"

RowsRead == 1..(rdr - 1)

\* C9: a journal row whose entry equals its stop yields no Trade, so every
\* Trade load_trades collects and returns has R = |entry - stop| > 0; rows with
\* a missing or non-numeric required field are skipped as well, and the load
\* goes on to the end of the file.
C9_ZeroRiskRejected ==
    /\ \A k \in 1..Len(trades) : Abs(trades[k].entry - trades[k].stop) > 0
    /\ \A k \in 1..Len(loaded) : Abs(loaded[k].entry - loaded[k].stop) > 0
    /\ \A k \in 1..Len(trades) : trades[k].entry # trades[k].stop
    /\ Len(trades) <=
          Cardinality({k \in RowsRead : ~ZeroRisk(journal[k]) /\ ~Defective(journal[k])})
    /\ (lpc = "done" /\ exists) => rdr = Len(journal) + 1
    /\ (lpc = "done" /\ limit = 0) => Len(loaded) = Len(trades)

C9_Witness ==
    /\ lpc = "done" /\ Len(journal) = 2
    /\ \E k \in 1..2 : ZeroRisk(journal[k]) /\ ~Defective(journal[k])
    /\ Len(loaded) = 1

\* ========================================================= ranking.score
\* A dict value as score reads it: "True", "False", or "None" for a key the
\* dict does not carry (dict.get gives None); ddoi is "pos", "neg", "flat" or "None".
Flags == {"True", "False", "None"}

Ddoi == {"pos", "neg", "flat", "None"}

\* Python truthiness of a flag
Truthy(v) == v = "True"

\* s = max(0.0, min(100.0, s))
Clamp_NoFloor(x) == IF x > 100 THEN 100 ELSE x
Clamp(x) ==
    LET m == IF x < 100 THEN x ELSE 100
    IN  IF m > 0 THEN m ELSE 0

score(conf, b, atr, spread) ==
    LET s0 == 0
        s1 == IF Truthy(conf.bos) THEN s0 + 20 ELSE s0
        s2 == IF Truthy(conf.fvg) THEN s1 + 20 ELSE s1
        s3 == IF Truthy(conf.ob) THEN s2 + 20 ELSE s2
        s4 == IF Truthy(conf.eq_liq) THEN s3 + 10 ELSE s3
        s5 == IF b.ddoi = "pos" THEN s4 + 10 ELSE s4
        s6 == IF b.ddoi = "neg" THEN s5 - 10 ELSE s5
        s7 == IF Truthy(b.opex_week) THEN s6 + 5 ELSE s6
        s8 == IF Truthy(b.earnings_soon) THEN s7 - 20 ELSE s7
        s9 == IF spread THEN s8 + 5 ELSE s8
    IN  Clamp(s9)

ScoreInit ==
    /\ SimIdle
    /\ LoadIdle
    /\ RestIdle
    /\ confluence \in [bos : Flags, fvg : Flags, ob : Flags, eq_liq : Flags]
    /\ bias \in [ddoi : Ddoi, opex_week : Flags, earnings_soon : Flags]
    /\ atr_like \in {0, 3}
    /\ spread_ok \in BOOLEAN
    /\ sc = 0
    /\ runs = 0
    /\ spc = "call"

\* sc = score(conf, bias, atr_like, spread_ok)
Score ==
    /\ UNCHANGED <<simVars, loadVars, restVars>>
    /\ spc = "call"
    /\ sc' = score(confluence, bias, atr_like, spread_ok)
    /\ runs' = 1
    /\ spc' = "done"
    /\ UNCHANGED <<confluence, bias, atr_like, spread_ok>>

\* score run again on the same arguments
Rescore ==
    /\ UNCHANGED <<simVars, loadVars, restVars>>
    /\ spc = "done"
    /\ runs < MaxRuns
    /\ sc' = score(confluence, bias, atr_like, spread_ok)
    /\ runs' = runs + 1
    /\ UNCHANGED <<confluence, bias, atr_like, spread_ok, spc>>

ScoreNext == Score \/ Rescore

ScoreSpec == ScoreInit /\ [][ScoreNext]_vars

\* ------------------------------------------------------------ score: claims
One(flag) == IF flag = "True" THEN 1 ELSE 0

Points ==
    20 * One(confluence.bos) + 20 * One(confluence.fvg) + 20 * One(confluence.ob)
    + 10 * One(confluence.eq_liq)
    + (CASE bias.ddoi = "pos" -> 10 [] bias.ddoi = "neg" -> -10 [] OTHER -> 0)
    + 5 * One(bias.opex_week) - 20 * One(bias.earnings_soon)
    + 5 * (IF spread_ok THEN 1 ELSE 0)

\* C10: score = clamp(20*bos + 20*fvg + 20*ob + 10*eq_liq + (10 | -10 by ddoi)
\* + 5*opex_week - 20*earnings_soon + 5*spread_ok, 0, 100): always within
\* [0,100], and a re-run on the same inputs returns the same value.
C10_ScoreFormula ==
    [][ spc' = "done" =>
          /\ (Points < 0) => sc' = 0
          /\ (Points > 100) => sc' = 100
          /\ (Points >= 0 /\ Points <= 100) => sc' = Points
          /\ sc' >= 0 /\ sc' <= 100
          /\ spc = "done" => sc' = sc ]_vars

C10_Witness ==
    /\ spc = "done" /\ runs = 2
    /\ bias.ddoi = "neg" /\ Truthy(bias.earnings_soon)
    /\ ~Truthy(confluence.bos) /\ ~Truthy(confluence.fvg) /\ ~Truthy(confluence.ob)
    /\ sc = 0

\* ====================================================== _targets_from_R
\* Scanner prices are in half cents: an aggregate's prices are whole cents
\* (even), the midpoint of a zone may fall on a half cent (odd).
Dollars(d) == d * 200

\* nothing of the simulation, the load or the score is running
OldIdle == SimIdle /\ LoadIdle /\ ScoreIdle

\* round(x, 2): a whole cent is kept; a half cent goes to one of the two
\* neighbouring cents, whichever the binary float of x is nearer to
round2(x) == IF x % 2 = 0 THEN {x} ELSE {x - 1, x + 1}

\* sorted(set(...)): the members in ascending order
RECURSIVE Ascending(_)
Ascending(S) ==
    IF S = {} THEN <<>>
    ELSE LET m == CHOOSE x \in S : \A y \in S : x <= y
         IN  <<m>> \o Ascending(S \ {m})

\* sorted(..., key=lambda x: abs(x - entry)), a stable sort
RECURSIVE InsertByDist(_, _, _)
InsertByDist(q, x, entry) ==
    IF q = <<>> THEN <<x>>
    ELSE IF Abs(q[Len(q)] - entry) <= Abs(x - entry) THEN Append(q, x)
    ELSE Append(InsertByDist(SubSeq(q, 1, Len(q) - 1), x, entry), q[Len(q)])

RECURSIVE SortByDist(_, _)
SortByDist(q, entry) ==
    IF q = <<>> THEN <<>>
    ELSE InsertByDist(SortByDist(SubSeq(q, 1, Len(q) - 1), entry), q[Len(q)], entry)

r_targets(entry, stop) ==
    LET R == Abs(entry - stop)
        direction_up == entry > stop
    IN  [k \in 1..4 |-> IF direction_up THEN entry + k * R ELSE entry - k * R]

liq_sorted_NoSideFilter(entry, stop, liq) == SortByDist(liq, entry)

liq_sorted(entry, stop, liq) ==
    LET direction_up == entry > stop
        onSide(x) == IF direction_up THEN x > entry ELSE x < entry
    IN  SortByDist(SelectSeq(liq, onSide), entry)

\* the lists a call can return
_targets_from_R(entry, stop, liq) ==
    LET rt == r_targets(entry, stop)
        ls == liq_sorted(entry, stop, liq)
        t1 == IF Len(ls) > 0 THEN ls[1] ELSE rt[1]
        t2 == IF Len(ls) > 1 THEN ls[2] ELSE rt[2]
    IN  {<<a, b, c, d>> : a \in round2(t1), b \in round2(t2),
                          c \in round2(rt[3]), d \in round2(rt[4])}

TargetEntries == {Dollars(100), Dollars(100) + 1}

TargetStops == {Dollars(98), Dollars(100), Dollars(102)}

TargetLevels == {Dollars(99), Dollars(101), Dollars(101) + 1, Dollars(103), Dollars(110)}

TargetsInit ==
    /\ OldIdle
    /\ RestIdleBut({"targets"})
    /\ t_entry \in TargetEntries
    /\ t_stop \in TargetStops \ {t_entry}
    /\ t_liq \in {Ascending(S) : S \in SUBSET TargetLevels}
    /\ t_targets = <<>>
    /\ tpc = "call"

TargetsCall ==
    /\ UNCHANGED tgtOthers
    /\ tpc = "call"
    /\ t_targets' \in _targets_from_R(t_entry, t_stop, t_liq)
    /\ tpc' = "done"
    /\ UNCHANGED <<t_entry, t_stop, t_liq>>

TargetsNext == TargetsCall

TargetsSpec == TargetsInit /\ [][TargetsNext]_vars

\* --------------------------------------------------------------- C11
\* the levels of liq beyond entry on the side away from the stop
SideLevels ==
    {t_liq[k] : k \in 1..Len(t_liq)} \cap
    (IF t_stop < t_entry THEN {x \in TargetLevels : x > t_entry}
                         ELSE {x \in TargetLevels : x < t_entry})

Nearest(S) == CHOOSE x \in S : \A y \in S : Abs(x - t_entry) <= Abs(y - t_entry)

Away(k) ==
    IF t_stop < t_entry THEN t_entry + k * Abs(t_entry - t_stop)
                        ELSE t_entry - k * Abs(t_entry - t_stop)

ClaimedT1 == IF SideLevels # {} THEN Nearest(SideLevels) ELSE Away(1)

ClaimedT2 ==
    IF Cardinality(SideLevels) > 1 THEN Nearest(SideLevels \ {Nearest(SideLevels)})
    ELSE Away(2)

ClaimedTargets == <<ClaimedT1, ClaimedT2, Away(3), Away(4)>>

\* C11, as the code has it: the four targets are the nearest and the
\* second-nearest liquidity level on the trade side (entry +/- 1R, 2R where
\* there is none) and entry +/- 3R, 4R, each rounded to the cent; with no
\* liquidity, entry 100 and stop 98 give 102, 104, 106, 108.
C11_TargetsToTheCent ==
    tpc = "done" =>
        /\ Len(t_targets) = 4
        /\ \A k \in 1..4 : t_targets[k] \in round2(ClaimedTargets[k])
        /\ (t_entry = Dollars(100) /\ t_stop = Dollars(98) /\ t_liq = <<>>) =>
               t_targets = <<Dollars(102), Dollars(104), Dollars(106), Dollars(108)>>

\* C11, as the claim has it: the four targets are those levels themselves.
C11_TargetsExact ==
    tpc = "done" =>
        /\ t_targets = ClaimedTargets
        /\ (t_entry = Dollars(100) /\ t_stop = Dollars(98) /\ t_liq = <<>>) =>
               t_targets = <<Dollars(102), Dollars(104), Dollars(106), Dollars(108)>>

\* a call whose first two targets are liquidity levels and whose 4R target
\* falls on a half cent
C11_Witness ==
    /\ tpc = "done"
    /\ Cardinality(SideLevels) > 1
    /\ Away(4) % 2 = 1
    /\ t_targets[4] # Away(4)

\* ========================================================= analyze_symbol
MaxBos == 4

MinScore == 90

BosEvent(d, t) == [dir |-> d, ts |-> t]

Zone(d, t, lo, hi) == [dir |-> d, ts |-> t, low |-> lo, high |-> hi]

\* bos: the events come out in bar order; bar t carries a bull event, a bear
\* event or none
RECURSIVE BosListsUpTo(_)
BosListsUpTo(t) ==
    IF t = 0 THEN {<<>>}
    ELSE LET earlier == BosListsUpTo(t - 1)
         IN  earlier \cup {Append(q, BosEvent(d, t)) : q \in earlier, d \in {"bull", "bear"}}

BosLists == BosListsUpTo(MaxBos)

\* the sets of BOS bars whose ten-bar lookback holds an opposite-colour candle
ObBars == {{}, {1}, 1..MaxBos}

\* order_blocks: one zone per BOS that has such a candle, with the BOS's ts
\* and the candle's body
order_blocks(bos_list, withBody) ==
    LET kept == SelectSeq(bos_list, LAMBDA b : b.ts \in withBody)
    IN  [k \in 1..Len(kept) |->
            IF kept[k].dir = "bull"
            THEN Zone("bull", kept[k].ts, Dollars(96), Dollars(100))
            ELSE Zone("bear", kept[k].ts, Dollars(100), Dollars(104))]

\* fvgs: the gaps come out in bar order; the last one is newer than every BOS
FvgCandidates ==
    << Zone("bull", 2, Dollars(100), Dollars(100) + 2),
       Zone("bear", 3, Dollars(100), Dollars(104)),
       Zone("bull", MaxBos + 1, Dollars(98), Dollars(102)) >>

RECURSIVE SubSeqs(_)
SubSeqs(q) ==
    IF q = <<>> THEN {<<>>}
    ELSE LET rest == SubSeqs(Tail(q))
         IN  rest \cup {<<Head(q)>> \o r : r \in rest}

FvgLists == SubSeqs(FvgCandidates)

EqLevels == {Dollars(95), Dollars(101), Dollars(110)}

EqLists == {Ascending(S) : S \in SUBSET EqLevels}

\* any(b["dir"] == d for b in bos_list[-3:])
dir_bias(bos_list, d) ==
    LET last3 == LastN(bos_list, 3)
    IN  \E k \in 1..Len(last3) : last3[k].dir = d

\* [z for z in fvg_list if z["dir"]==d] + [z for z in ob_list if z["dir"]==d]
zones_of(d, fvg_list, ob_list) ==
    SelectSeq(fvg_list, LAMBDA z : z.dir = d) \o SelectSeq(ob_list, LAMBDA z : z.dir = d)

PyBool(b) == IF b THEN "True" ELSE "False"

AnalyzeInit ==
    /\ OldIdle
    /\ RestIdleBut({"analyze"})
    /\ a_bos = <<>> /\ a_fvg = <<>> /\ a_ob = <<>> /\ a_eq = <<>>
    /\ a_entry = 0 /\ a_stop = 0 /\ a_dir = "none" /\ a_zones = <<>>
    /\ a_bias = NoBias /\ a_ret = NoSetup
    /\ apc = "fetch"

\* p.aggs raises, or df.empty or len(df) < 80: return None
AnNoData ==
    /\ UNCHANGED anOthers
    /\ apc = "fetch"
    /\ a_ret' = NoSetup
    /\ apc' = "done"
    /\ UNCHANGED <<a_bos, a_fvg, a_ob, a_eq, a_entry, a_stop, a_dir, a_zones, a_bias>>

\* the detectors run and entry, stop and direction are derived
AnDetect ==
    /\ UNCHANGED anOthers
    /\ apc = "fetch"
    /\ \E b \in BosLists, withBody \in ObBars, f \in FvgLists, e \in EqLists :
        LET o == order_blocks(b, withBody)
            d == IF dir_bias(b, "bull") THEN "bull"
                 ELSE IF dir_bias(b, "bear") THEN "bear" ELSE "none"
            z == IF d = "none" THEN <<>> ELSE zones_of(d, f, o)
            cand == z[Len(z)]
        IN  /\ a_bos' = b /\ a_fvg' = f /\ a_ob' = o /\ a_eq' = e
            /\ IF z # <<>>
               THEN /\ a_entry' = (cand.low + cand.high) \div 2
                    /\ a_stop' = (IF d = "bull" THEN cand.low ELSE cand.high)
                    /\ a_dir' = (IF d = "bull" THEN "long" ELSE "short")
                    /\ a_zones' = <<[low |-> cand.low, high |-> cand.high]>>
                    /\ apc' = "chain"
               ELSE /\ UNCHANGED <<a_entry, a_stop, a_dir, a_zones>>
                    /\ apc' = "done"
    /\ a_ret' = NoSetup
    /\ UNCHANGED a_bias

\* the options chain answers (or fails: chain = {} and ddoi is flat)
AnChain ==
    /\ UNCHANGED anOthers
    /\ apc = "chain"
    /\ \E dd \in {"pos", "neg", "flat"}, ow \in BOOLEAN :
        a_bias' = [ddoi |-> dd, opex_week |-> PyBool(ow), earnings_soon |-> "False"]
    /\ apc' = "earnings"
    /\ UNCHANGED <<a_bos, a_fvg, a_ob, a_eq, a_entry, a_stop, a_dir, a_zones, a_ret>>

\* the earnings date answers (or fails: earnings_soon stays False)
AnEarnings ==
    /\ UNCHANGED anOthers
    /\ apc = "earnings"
    /\ \E soon \in BOOLEAN : a_bias' = [a_bias EXCEPT !.earnings_soon = PyBool(soon)]
    /\ apc' = "score"
    /\ UNCHANGED <<a_bos, a_fvg, a_ob, a_eq, a_entry, a_stop, a_dir, a_zones, a_ret>>

an_score_OpexAssumed ==
    score([bos |-> PyBool(a_bos # <<>>), fvg |-> PyBool(a_fvg # <<>>),
           ob |-> PyBool(a_ob # <<>>), eq_liq |-> PyBool(a_eq # <<>>)],
          [a_bias EXCEPT !.opex_week = "True"], 0, TRUE)

\* sc = score(conf, bias, atr_like, True)
an_score ==
    score([bos |-> PyBool(a_bos # <<>>), fvg |-> PyBool(a_fvg # <<>>),
           ob |-> PyBool(a_ob # <<>>), eq_liq |-> PyBool(a_eq # <<>>)],
          a_bias, 0, TRUE)

\* if sc < MIN_SCORE: return None
AnRejectScore ==
    /\ UNCHANGED anOthers
    /\ apc = "score"
    /\ an_score < MinScore
    /\ a_ret' = NoSetup
    /\ apc' = "done"
    /\ UNCHANGED <<a_bos, a_fvg, a_ob, a_eq, a_entry, a_stop, a_dir, a_zones, a_bias>>

\* if not (PROJ_MIN <= proj <= PROJ_MAX): return None
AnRejectProj ==
    /\ UNCHANGED anOthers
    /\ apc = "score"
    /\ an_score >= MinScore
    /\ a_ret' = NoSetup
    /\ apc' = "done"
    /\ UNCHANGED <<a_bos, a_fvg, a_ob, a_eq, a_entry, a_stop, a_dir, a_zones, a_bias>>

\* the candidate is returned
AnAccept ==
    /\ UNCHANGED anOthers
    /\ apc = "score"
    /\ an_score >= MinScore
    /\ \E e \in round2(a_entry), s \in round2(a_stop),
          t \in _targets_from_R(a_entry, a_stop, a_eq) :
        a_ret' = [symbol |-> "SYM", direction |-> a_dir, entry |-> e, stop |-> s,
                  targets |-> t, score |-> an_score, zones |-> a_zones]
    /\ apc' = "done"
    /\ UNCHANGED <<a_bos, a_fvg, a_ob, a_eq, a_entry, a_stop, a_dir, a_zones, a_bias>>

AnalyzeNext ==
    \/ AnNoData
    \/ AnDetect
    \/ AnChain
    \/ AnEarnings
    \/ AnRejectScore
    \/ AnRejectProj
    \/ AnAccept

AnalyzeSpec == AnalyzeInit /\ [][AnalyzeNext]_vars

\* --------------------------------------------------------------- C12
\* C12: every candidate analyze_symbol returns has entry # stop and targets
\* that move monotonically away from entry: entry < T1 <= T2 <= T3 <= T4 for
\* a long, entry > T1 >= T2 >= T3 >= T4 for a short.
C12_TargetsMonotonic ==
    (apc = "done" /\ a_ret # NoSetup) =>
        LET t == a_ret.targets
        IN  /\ a_ret.entry # a_ret.stop
            /\ IF a_ret.direction = "long"
               THEN a_ret.entry < t[1] /\ t[1] <= t[2] /\ t[2] <= t[3] /\ t[3] <= t[4]
               ELSE a_ret.entry > t[1] /\ t[1] >= t[2] /\ t[2] >= t[3] /\ t[3] >= t[4]

\* --------------------------------------------------------------- C13
CountLast3(d) ==
    LET last3 == LastN(a_bos, 3)
    IN  Cardinality({k \in 1..Len(last3) : last3[k].dir = d})

\* C13: the direction follows the majority among the last 3 BOS events: long
\* only with a bull majority, short only with a bear majority, and no
\* candidate when neither is the majority (no BOS events included).
C13_MajorityDirection ==
    /\ a_dir = "long" => CountLast3("bull") > CountLast3("bear")
    /\ a_dir = "short" => CountLast3("bear") > CountLast3("bull")
    /\ (apc = "done" /\ CountLast3("bull") = CountLast3("bear")) => a_ret = NoSetup

\* --------------------------------------------------------------- C14
\* the detected zones of the trade direction
DirZones ==
    LET d == IF a_dir = "long" THEN "bull" ELSE "bear"
    IN  {z \in {a_fvg[k] : k \in 1..Len(a_fvg)} \cup {a_ob[k] : k \in 1..Len(a_ob)} :
            z.dir = d}

\* C14: the zone taken is the latest-timestamp zone among all FVGs and order
\* blocks of the trade direction, entry is its midpoint and stop its low
\* (long) or high (short); with no such zone there is no candidate.
C14_LatestZone ==
    /\ a_dir # "none" =>
        \E z \in DirZones :
            /\ \A y \in DirZones : y.ts <= z.ts
            /\ 2 * a_entry = z.low + z.high
            /\ a_stop = (IF a_dir = "long" THEN z.low ELSE z.high)
    /\ (apc = "done" /\ a_ret # NoSetup) => DirZones # {}

\* ================================================================ generate
MaxSyms == 3

MaxConc == 2

Min(a, b) == IF a < b THEN a ELSE b

Max(a, b) == IF a > b THEN a ELSE b

\* load_universe(): the symbols, de-duplicated, in list order; a symbol is
\* named by its place in the list
all_syms == [k \in 1..MaxSyms |-> k]

\* analyze_symbol for one symbol: it raises, returns None or returns a row
Outcomes ==
    { [kind |-> "raise", score |-> 0], [kind |-> "none", score |-> 0],
      [kind |-> "row", score |-> 80], [kind |-> "row", score |-> 90] }

\* syms = all_syms[:MAX_SYMBOLS]
syms == SubSeq(all_syms, 1, Min(g_cap, Len(all_syms)))

\* a worker's return value None
NoRow == [symbol |-> 0, score |-> 0]

\* try: return await analyze_symbol(p, s) / except Exception: return None
worker_result(s) ==
    IF g_analysis[s].kind = "row" THEN [symbol |-> s, score |-> g_analysis[s].score]
    ELSE NoRow

\* isinstance(r, dict) and r
accepted_All(r) == TRUE

accepted(r) == r # NoRow

\* asyncio.Semaphore.acquire goes through without waiting
sem_free_Always(v) == TRUE

sem_free(v) == v > 0

\* the semaphore's waiters are served in the order they arrived, which is the
\* order gather created the workers in
next_in_line(w, k) == \A j \in DOMAIN w : j < k => w[j] # "waiting"

\* rows.sort(key=lambda x: x["score"], reverse=True): a stable sort, rows of
\* equal score keep their order
stays_before_Strict(x, r) == x.score > r.score

stays_before(x, r) == x.score >= r.score

RECURSIVE InsertByScore(_, _)
InsertByScore(q, r) ==
    IF q = <<>> THEN <<r>>
    ELSE IF stays_before(q[Len(q)], r) THEN Append(q, r)
    ELSE Append(InsertByScore(SubSeq(q, 1, Len(q) - 1), r), q[Len(q)])

RECURSIVE SortByScore(_)
SortByScore(q) ==
    IF q = <<>> THEN <<>>
    ELSE InsertByScore(SortByScore(SubSeq(q, 1, Len(q) - 1)), q[Len(q)])

Inside(w) == Cardinality({k \in DOMAIN w : w[k] = "inside"})

AllDone(w) == \A k \in DOMAIN w : w[k] = "done"

GenInit ==
    /\ OldIdle
    /\ RestIdleBut({"generate"})
    /\ g_analysis \in [1..MaxSyms -> Outcomes]
    /\ g_cap \in {MaxSyms - 1, MaxSyms}
    /\ g_limit \in 1..MaxConc
    /\ g_sem = 0 /\ g_w = <<>> /\ g_res = <<>> /\ g_order = <<>> /\ g_rows = <<>>
    /\ g_client = "none"
    /\ gpc = "start"

\* p = Polygon() raises: POLYGON_API_KEY is not set
GenNoKey ==
    /\ UNCHANGED genOthers
    /\ gpc = "start"
    /\ gpc' = "raised"
    /\ UNCHANGED <<g_analysis, g_cap, g_limit, g_sem, g_w, g_res, g_order, g_rows, g_client>>

\* p = Polygon(); sem = asyncio.Semaphore(MAX_CONCURRENCY); gather starts
GenStart ==
    /\ UNCHANGED genOthers
    /\ gpc = "start"
    /\ g_client' = "open"
    /\ g_sem' = g_limit
    /\ g_w' = [k \in 1..Len(syms) |-> "waiting"]
    /\ g_res' = [k \in 1..Len(syms) |-> NoRow]
    /\ gpc' = "gather"
    /\ UNCHANGED <<g_analysis, g_cap, g_limit, g_order, g_rows>>

\* async with sem: worker k enters
GenAcquire(k) ==
    /\ UNCHANGED genOthers
    /\ gpc = "gather"
    /\ g_w[k] = "waiting"
    /\ sem_free(g_sem)
    /\ next_in_line(g_w, k)
    /\ g_sem' = g_sem - 1
    /\ g_w' = [g_w EXCEPT ![k] = "inside"]
    /\ UNCHANGED <<g_analysis, g_cap, g_limit, g_res, g_order, g_rows, g_client, gpc>>

\* worker k's analyze_symbol ends; the worker returns and leaves the gate
GenFinish(k) ==
    /\ UNCHANGED genOthers
    /\ gpc = "gather"
    /\ g_w[k] = "inside"
    /\ g_res' = [g_res EXCEPT ![k] = worker_result(syms[k])]
    /\ g_sem' = g_sem + 1
    /\ g_w' = [g_w EXCEPT ![k] = "done"]
    /\ g_order' = Append(g_order, k)
    /\ UNCHANGED <<g_analysis, g_cap, g_limit, g_rows, g_client, gpc>>

\* gather returns the workers' values in the order of syms; filter, sort,
\* return; finally: await p.close()
GenReturn ==
    /\ UNCHANGED genOthers
    /\ gpc = "gather"
    /\ AllDone(g_w)
    /\ g_rows' = SortByScore(SelectSeq(g_res, accepted))
    /\ g_client' = "closed"
    /\ gpc' = "returned"
    /\ UNCHANGED <<g_analysis, g_cap, g_limit, g_sem, g_w, g_res, g_order>>

\* generate is cancelled while it awaits gather; finally: await p.close()
GenCancelled ==
    /\ UNCHANGED genOthers
    /\ gpc = "gather"
    /\ g_client' = "closed"
    /\ gpc' = "raised"
    /\ UNCHANGED <<g_analysis, g_cap, g_limit, g_sem, g_w, g_res, g_order, g_rows>>

GenNext ==
    \/ GenNoKey
    \/ GenStart
    \/ \E k \in 1..MaxSyms : k \in DOMAIN g_w /\ GenAcquire(k)
    \/ \E k \in 1..MaxSyms : k \in DOMAIN g_w /\ GenFinish(k)
    \/ GenReturn
    \/ GenCancelled

GenSpec == GenInit /\ [][GenNext]_vars

\* --------------------------------------------------------------- C15
\* C15: the returned rows are sorted by score descending, and rows of equal
\* score keep the order of their symbols in the universe list, whatever the
\* order the workers finished in.
C15_SortedStable ==
    gpc = "returned" =>
        \A a, b \in 1..Len(g_rows) :
            a < b =>
                /\ g_rows[a].score >= g_rows[b].score
                /\ g_rows[a].score = g_rows[b].score => g_rows[a].symbol < g_rows[b].symbol

\* two rows of equal score whose workers finished in the reverse order, and a
\* higher-scored row that comes later in the universe
C15_Witness ==
    /\ gpc = "returned"
    /\ Len(g_rows) = 3
    /\ g_rows[1].symbol = 3
    /\ g_rows[2].score = g_rows[3].score
    /\ g_order = <<2, 3, 1>>

\* --------------------------------------------------------------- C17
RowSymbols == {g_rows[k].symbol : k \in 1..Len(g_rows)}

\* C17: a symbol whose analysis raises or whose fetch fails gives no row and
\* does not abort the scan: the returned list holds exactly the rows of the
\* symbols whose analysis returned one, each symbol once, and the client is
\* closed however generate ends.
C17_ExactlyAccepted ==
    /\ gpc = "returned" =>
        /\ \A s \in 1..Len(syms) :
              IF g_analysis[s].kind = "row"
              THEN \E k \in 1..Len(g_rows) :
                      g_rows[k] = [symbol |-> s, score |-> g_analysis[s].score]
              ELSE s \notin RowSymbols
        /\ RowSymbols \subseteq 1..Len(syms)
        /\ Cardinality(RowSymbols) = Len(g_rows)
    /\ gpc \in {"returned", "raised"} => g_client # "open"
    /\ (gpc = "gather" /\ AllDone(g_w)) => ENABLED GenReturn

\* a scan with a raising symbol, a symbol without a setup and an accepted one
C17_Witness ==
    /\ gpc = "returned"
    /\ g_client = "closed"
    /\ \E s, t \in 1..Len(syms) : g_analysis[s].kind = "raise" /\ g_analysis[t].kind = "none"
    /\ Len(g_rows) = 1

\* =========================================================== backtest_once
MaxTrades == 3

\* for one trade: fetch_bars or simulate_outcome raises (ok FALSE), or the
\* simulation gives round(sim["realized_R"], 3), in thousandths of R
BtOutcomes ==
    { [ok |-> FALSE, r |-> 0], [ok |-> TRUE, r |-> -1000],
      [ok |-> TRUE, r |-> 500], [ok |-> TRUE, r |-> 1500] }

\* the dict a worker appends to results
result_of(k) ==
    IF b_trades[k].ok
    THEN [symbol |-> k, kind |-> "sim", realized_R |-> b_trades[k].r]
    ELSE [symbol |-> k, kind |-> "error", realized_R |-> 0]

\* the loop over rs: s, peak and mdd start at 0
RECURSIVE mdd_loop(_, _, _, _)
mdd_loop(rs, s, peak, mdd) ==
    IF rs = <<>> THEN mdd
    ELSE LET s1 == s + Head(rs).realized_R
             peak1 == Max(peak, s1)
         IN  mdd_loop(Tail(rs), s1, peak1, Min(mdd, s1 - peak1))

RECURSIVE lowest_sum(_, _, _)
lowest_sum(rs, s, low) ==
    IF rs = <<>> THEN low
    ELSE lowest_sum(Tail(rs), s + Head(rs).realized_R, Min(low, s + Head(rs).realized_R))

max_drawdown_NoPeak(rs) == lowest_sum(rs, 0, 0)

\* sums of values of three decimals: round(mdd, 3) gives the exact sum
max_drawdown(rs) == mdd_loop(rs, 0, 0, 0)

summary_of(results) ==
    LET rs == SelectSeq(results, LAMBDA r : r.kind = "sim")
    IN  IF Len(rs) = 0 THEN [trades |-> 0]
        ELSE [trades |-> Len(rs),
              max_drawdown_R |-> max_drawdown(rs),
              wins |-> Len(SelectSeq(rs, LAMBDA r : r.realized_R > 0)),
              losses |-> Len(SelectSeq(rs, LAMBDA r : r.realized_R < 0)),
              flats |-> Len(SelectSeq(rs, LAMBDA r : r.realized_R = 0))]

BtInit ==
    /\ OldIdle
    /\ RestIdleBut({"backtest"})
    /\ b_trades \in SeqsUpTo(BtOutcomes, MaxTrades)
    /\ b_limit \in 1..MaxConc
    /\ b_sem = 0 /\ b_w = <<>> /\ b_results = <<>> /\ b_ret = NoReport
    /\ b_client = "none"
    /\ bpc = "start"

\* if not trades: return {"count": 0, "results": [], "summary": {"trades": 0}}
BtNoTrades ==
    /\ UNCHANGED btOthers
    /\ bpc = "start"
    /\ b_trades = <<>>
    /\ b_ret' = [count |-> 0, results |-> <<>>, summary |-> [trades |-> 0]]
    /\ bpc' = "returned"
    /\ UNCHANGED <<b_trades, b_limit, b_sem, b_w, b_results, b_client>>

\* p = Polygon() raises: POLYGON_API_KEY is not set
BtNoKey ==
    /\ UNCHANGED btOthers
    /\ bpc = "start"
    /\ b_trades # <<>>
    /\ bpc' = "raised"
    /\ UNCHANGED <<b_trades, b_limit, b_sem, b_w, b_results, b_ret, b_client>>

\* p = Polygon(); sem = asyncio.Semaphore(DEF_CONC); results = []; gather starts
BtStart ==
    /\ UNCHANGED btOthers
    /\ bpc = "start"
    /\ b_trades # <<>>
    /\ b_client' = "open"
    /\ b_sem' = b_limit
    /\ b_w' = [k \in 1..Len(b_trades) |-> "waiting"]
    /\ bpc' = "gather"
    /\ UNCHANGED <<b_trades, b_limit, b_results, b_ret>>

\* async with sem: worker k enters
BtAcquire(k) ==
    /\ UNCHANGED btOthers
    /\ bpc = "gather"
    /\ b_w[k] = "waiting"
    /\ sem_free(b_sem)
    /\ next_in_line(b_w, k)
    /\ b_sem' = b_sem - 1
    /\ b_w' = [b_w EXCEPT ![k] = "inside"]
    /\ UNCHANGED <<b_trades, b_limit, b_results, b_ret, b_client, bpc>>

\* worker k's fetch_bars ends; it simulates, appends and leaves the gate
BtFinish(k) ==
    /\ UNCHANGED btOthers
    /\ bpc = "gather"
    /\ b_w[k] = "inside"
    /\ b_results' = Append(b_results, result_of(k))
    /\ b_sem' = b_sem + 1
    /\ b_w' = [b_w EXCEPT ![k] = "done"]
    /\ UNCHANGED <<b_trades, b_limit, b_ret, b_client, bpc>>

\* gather is over: await p.close(), the statistics, return
BtSummary ==
    /\ UNCHANGED btOthers
    /\ bpc = "gather"
    /\ AllDone(b_w)
    /\ b_client' = "closed"
    /\ b_ret' = [count |-> Len(b_results), results |-> b_results,
                 summary |-> summary_of(b_results)]
    /\ bpc' = "returned"
    /\ UNCHANGED <<b_trades, b_limit, b_sem, b_w, b_results>>

BtNext ==
    \/ BtNoTrades
    \/ BtNoKey
    \/ BtStart
    \/ \E k \in 1..MaxTrades : k \in DOMAIN b_w /\ BtAcquire(k)
    \/ \E k \in 1..MaxTrades : k \in DOMAIN b_w /\ BtFinish(k)
    \/ BtSummary

BtSpec == BtInit /\ [][BtNext]_vars

\* the scanner or the backtest runs
PoolInit == GenInit \/ BtInit

PoolNext == GenNext \/ BtNext

PoolSpec == PoolInit /\ [][PoolNext]_vars

\* --------------------------------------------------------------- C16
\* C16: in every interleaving the number of workers inside the semaphore
\* gate is at most MAX_CONCURRENCY in the scanner and DEF_CONC in the
\* backtest; while the gate is full no waiting worker can enter.
C16_GateBound ==
    /\ Inside(g_w) <= g_limit
    /\ Inside(b_w) <= b_limit
    /\ Inside(g_w) = g_limit => \A k \in DOMAIN g_w : ~ENABLED GenAcquire(k)
    /\ Inside(b_w) = b_limit => \A k \in DOMAIN b_w : ~ENABLED BtAcquire(k)

\* the backtest's gate is full and a worker waits
C16_Witness ==
    /\ bpc = "gather"
    /\ b_limit = 2
    /\ Inside(b_w) = b_limit
    /\ \E k \in DOMAIN b_w : b_w[k] = "waiting"

\* --------------------------------------------------------------- C18
SimulatedRs == SelectSeq(b_ret.results, LAMBDA r : r.kind = "sim")

RECURSIVE SumR(_)
SumR(q) == IF q = <<>> THEN 0 ELSE Head(q).realized_R + SumR(Tail(q))

\* cumulative realized R after the first k simulated trades
CumR(k) == SumR(SubSeq(SimulatedRs, 1, k))

\* the running peak after k trades, starting at 0
PeakR(k) == CHOOSE m \in {CumR(j) : j \in 0..k} : \A j \in 0..k : CumR(j) <= m

Drawdowns == {CumR(k) - PeakR(k) : k \in 1..Len(SimulatedRs)}

\* C18: max_drawdown_R is the minimum over the simulated trades of cumulative
\* realized R minus its running peak (the peak starting at 0); it is never
\* positive, and it is 0 when the cumulative R never falls below its peak.
C18_MaxDrawdown ==
    (bpc = "returned" /\ b_ret.summary.trades > 0) =>
        LET mdd == b_ret.summary.max_drawdown_R
        IN  /\ mdd \in Drawdowns
            /\ \A d \in Drawdowns : mdd <= d
            /\ mdd <= 0
            /\ (\A k \in 1..Len(SimulatedRs) : CumR(k) >= PeakR(k - 1)) => mdd = 0

\* a win followed by a loss: the drawdown is below 0 although the cumulative
\* R stays above 0
C18_Witness ==
    /\ bpc = "returned"
    /\ b_ret.summary.trades = 2
    /\ CumR(1) = 1500
    /\ CumR(2) = 500
    /\ b_ret.summary.max_drawdown_R = -1000

\* ============================================================ is_opex_week
\* a month is given by the weekday of its 1st and its length; a date of the
\* month by its day
Weekdays == 0..6

MonthLengths == {28, 29, 30, 31}

\* date(year, month, day).weekday()
weekday(first, day) == (first + day - 1) % 7

\* d = date(year, month, 15); while d.weekday() != 4: d += timedelta(days=1)
RECURSIVE seek_friday(_, _)
seek_friday(first, day) ==
    IF weekday(first, day) # 4 THEN seek_friday(first, day + 1) ELSE day

third_friday_From14(first) == seek_friday(first, 14)

third_friday(first) == seek_friday(first, 15)

is_opex_week(first, day) ==
    LET tf == third_friday(first)
        start == tf - weekday(first, tf)
        end == start + 4
    IN  start <= day /\ day <= end

OpexInit ==
    /\ OldIdle
    /\ RestIdleBut({"opex"})
    /\ o_first \in Weekdays
    /\ o_len \in MonthLengths
    /\ o_day \in 1..o_len
    /\ o_ret = "None"
    /\ opc = "call"

OpexCall ==
    /\ UNCHANGED opexOthers
    /\ opc = "call"
    /\ o_ret' = PyBool(is_opex_week(o_first, o_day))
    /\ opc' = "done"
    /\ UNCHANGED <<o_first, o_len, o_day>>

OpexNext == OpexCall

OpexSpec == OpexInit /\ [][OpexNext]_vars

\* --------------------------------------------------------------- C19
Fridays == {x \in 1..o_len : weekday(o_first, x) = 4}

\* the Friday of the month with exactly two Fridays before it
ThirdFriday == CHOOSE f \in Fridays : Cardinality({x \in Fridays : x < f}) = 2

\* the Monday-to-Sunday week a day falls in, counted from the week of the 1st
WeekOf(x) == (o_first + x - 1) \div 7

\* C19: is_opex_week(d) is true exactly for the Monday..Friday of the
\* calendar week that holds the third Friday of d's month and false for every
\* other date of the month, that week's Saturday and Sunday included, also
\* in months whose 1st is a Friday.
C19_OpexWeek ==
    opc = "done" =>
        (o_ret = "True" <=>
            (WeekOf(o_day) = WeekOf(ThirdFriday) /\ weekday(o_first, o_day) <= 4))

\* the Saturday after the third Friday of a month that starts on a Friday
C19_Witness ==
    /\ opc = "done"
    /\ o_first = 4
    /\ ThirdFriday = 15
    /\ o_day = 16
    /\ o_ret = "False"

\* ================================================================== swings
MaxSwingBars == 5

MaxN == 2

SwingBars == {[high |-> h, low |-> l] : h \in {1, 2, 3}, l \in {0, 1}}

\* H.iloc[k], L.iloc[k] for a 0-based k
H(bars, k) == bars[k + 1].high

L(bars, k) == bars[k + 1].low

\* H.iloc[i - n : i + n + 1].max()
windowH_max(bars, c, n) ==
    LET w == {H(bars, k) : k \in (c - n)..(c + n)}
    IN  CHOOSE m \in w : \A x \in w : x <= m

\* L.iloc[i - n : i + n + 1].min()
windowL_min(bars, c, n) ==
    LET w == {L(bars, k) : k \in (c - n)..(c + n)}
    IN  CHOOSE m \in w : \A x \in w : m <= x

swing_high_at_WindowOnly(bars, c, n) == H(bars, c) = windowH_max(bars, c, n)

swing_high_at(bars, c, n) ==
    /\ H(bars, c) = windowH_max(bars, c, n)
    /\ H(bars, c) > H(bars, c - 1)
    /\ H(bars, c) > H(bars, c + 1)

swing_low_at(bars, c, n) ==
    /\ L(bars, c) = windowL_min(bars, c, n)
    /\ L(bars, c) < L(bars, c - 1)
    /\ L(bars, c) < L(bars, c + 1)

SwingsInit ==
    /\ OldIdle
    /\ RestIdleBut({"swings"})
    /\ w_bars \in SeqsUpTo(SwingBars, MaxSwingBars)
    /\ w_n \in 1..MaxN
    /\ w_i = 0
    /\ w_highs = <<>>
    /\ w_lows = <<>>
    /\ wpc = "call"

\* if length == 0: return highs, lows
SwEmpty ==
    /\ UNCHANGED swOthers
    /\ wpc = "call"
    /\ Len(w_bars) = 0
    /\ wpc' = "done"
    /\ UNCHANGED <<w_bars, w_n, w_i, w_highs, w_lows>>

\* for i in range(n, length - n): the loop starts
SwEnter ==
    /\ UNCHANGED swOthers
    /\ wpc = "call"
    /\ Len(w_bars) # 0
    /\ w_i' = w_n
    /\ wpc' = "loop"
    /\ UNCHANGED <<w_bars, w_n, w_highs, w_lows>>

\* one pass of the loop body
SwStep ==
    /\ UNCHANGED swOthers
    /\ wpc = "loop"
    /\ w_i < Len(w_bars) - w_n
    /\ w_highs' = IF swing_high_at(w_bars, w_i, w_n) THEN Append(w_highs, w_i) ELSE w_highs
    /\ w_lows' = IF swing_low_at(w_bars, w_i, w_n) THEN Append(w_lows, w_i) ELSE w_lows
    /\ w_i' = w_i + 1
    /\ UNCHANGED <<w_bars, w_n, wpc>>

\* the range is exhausted: return highs, lows
SwReturn ==
    /\ UNCHANGED swOthers
    /\ wpc = "loop"
    /\ w_i >= Len(w_bars) - w_n
    /\ wpc' = "done"
    /\ UNCHANGED <<w_bars, w_n, w_i, w_highs, w_lows>>

SwingsNext == SwEmpty \/ SwEnter \/ SwStep \/ SwReturn

SwingsSpec == SwingsInit /\ [][SwingsNext]_vars

\* --------------------------------------------------------------- C20
Reported(q) == {q[k] : k \in 1..Len(q)}

Ascends(q) == \A a, b \in 1..Len(q) : a < b => q[a] < q[b]

InRange(x) == w_n <= x /\ x < Len(w_bars) - w_n

\* C20: for n >= 1, swings returns two empty lists for fewer than 2n+1 bars;
\* otherwise position i is a swing high exactly when n <= i < len - n,
\* high[i] equals the maximum over [i-n, i+n] and is strictly above high[i-1]
\* and high[i+1] (lows symmetric with the minimum and strictly below); each
\* list is in ascending order.
C20_SwingRule ==
    wpc = "done" =>
        /\ Len(w_bars) < 2 * w_n + 1 => (w_highs = <<>> /\ w_lows = <<>>)
        /\ \A x \in 0..(Len(w_bars) - 1) :
            /\ x \in Reported(w_highs) <=>
                 /\ InRange(x)
                 /\ \A k \in (x - w_n)..(x + w_n) : w_bars[k + 1].high <= w_bars[x + 1].high
                 /\ w_bars[x + 1].high > w_bars[x].high
                 /\ w_bars[x + 1].high > w_bars[x + 2].high
            /\ x \in Reported(w_lows) <=>
                 /\ InRange(x)
                 /\ \A k \in (x - w_n)..(x + w_n) : w_bars[k + 1].low >= w_bars[x + 1].low
                 /\ w_bars[x + 1].low < w_bars[x].low
                 /\ w_bars[x + 1].low < w_bars[x + 2].low
        /\ Reported(w_highs) \cup Reported(w_lows) \subseteq 0..(Len(w_bars) - 1)
        /\ Ascends(w_highs)
        /\ Ascends(w_lows)

\* five bars with n = 1 and two swing highs, the second one equal to the first
C20_Witness ==
    /\ wpc = "done"
    /\ w_n = 1
    /\ Len(w_bars) = 5
    /\ w_highs = <<1, 3>>
    /\ w_bars[2].high = w_bars[4].high
    /\ w_lows # <<>>

\* --------------------------------------------------------------- C30
\* C30: with MIN_SCORE = 90 and spread_ok passed as true, a setup is accepted
\* only when BOS, FVG, order block and equal-high/low liquidity are all
\* present, dealer bias is 'pos', opex_week is true and earnings_soon is
\* false; no setup is accepted outside OPEX week.
C30_AcceptNeedsEverything ==
    (apc = "done" /\ a_ret # NoSetup) =>
        /\ a_bos # <<>> /\ a_fvg # <<>> /\ a_ob # <<>> /\ a_eq # <<>>
        /\ a_bias.ddoi = "pos"
        /\ a_bias.opex_week = "True"
        /\ a_bias.earnings_soon = "False"
        /\ a_ret.score = MinScore

\* an accepted short setup
C30_Witness ==
    /\ apc = "done"
    /\ a_ret # NoSetup
    /\ a_ret.direction = "short"
    /\ a_ret.score = 90

\* --------------------------------------------------------------- C28
\* the results in the order of the loaded trades
ResultsInTradeOrder == [k \in 1..Len(b_trades) |-> result_of(k)]

\* C28: the summary statistics depend only on the loaded trades and their
\* simulated outcomes, not on the order in which the workers finished: they
\* are those of the results taken in the order of the trades.
C28_OrderIndependent ==
    bpc = "returned" => b_ret.summary = summary_of(ResultsInTradeOrder)

\* ---------------------------------------------------------------------
\* bos (src/app/detectors/bos.py), on the swings that analyze_symbol
\* passes it. A timestamp is the 0-based position of its row in the index.
\* ---------------------------------------------------------------------

MaxBosBars == 8

\* n of the swings call that feeds bos
SwingN == 3

BosBars ==
    { [high |-> 10, low |-> 8, close |-> 9],
      [high |-> 6, low |-> 4, close |-> 5],
      [high |-> 2, low |-> 0, close |-> 1] }

RECURSIVE swings_from(_, _, _, _)
\* the highs (side "high") or lows that swings appends from position c on
swings_from(bars, n, c, side) ==
    IF c >= Len(bars) - n THEN <<>>
    ELSE LET hit == IF side = "high" THEN swing_high_at(bars, c, n)
                    ELSE swing_low_at(bars, c, n)
         IN  (IF hit THEN <<c>> ELSE <<>>) \o swings_from(bars, n, c + 1, side)

RECURSIVE Pow15(_)
Pow15(k) == IF k = 0 THEN 1 ELSE 15 * Pow15(k - 1)

RECURSIVE atr_like15(_, _)
\* (high - low).ewm(span=14, adjust=False).mean() at position k, times
\* 15^k: alpha is 2/15, y[0] = x[0], y[k] = (13/15) y[k-1] + (2/15) x[k]
atr_like15(bars, k) ==
    IF k = 0 THEN H(bars, 0) - L(bars, 0)
    ELSE 13 * atr_like15(bars, k - 1)
         + 2 * (H(bars, k) - L(bars, k)) * Pow15(k - 1)

Close(bars, k) == bars[k + 1].close

\* (close > ref_hi) and ((close - ref_hi) > atr_like * atr_mult), atr_mult 0.5
disp_up(bars, k, last_hi) ==
    /\ last_hi # -1
    /\ Close(bars, k) > H(bars, last_hi)
    /\ 2 * (Close(bars, k) - H(bars, last_hi)) * Pow15(k) > atr_like15(bars, k)

disp_dn(bars, k, last_lo) ==
    /\ last_lo # -1
    /\ Close(bars, k) < L(bars, last_lo)
    /\ 2 * (L(bars, last_lo) - Close(bars, k)) * Pow15(k) > atr_like15(bars, k)

InSeq(x, s) == \E j \in DOMAIN s : s[j] = x

BosInit ==
    /\ OldIdle
    /\ RestIdleBut({"bos"})
    /\ k_bars \in SeqsUpTo(BosBars, MaxBosBars)
    /\ k_highs = swings_from(k_bars, SwingN, SwingN, "high")
    /\ k_lows = swings_from(k_bars, SwingN, SwingN, "low")
    /\ k_idx = 0
    /\ k_last_hi = -1
    /\ k_last_lo = -1
    /\ k_out = <<>>
    /\ kpc = "call"

\* if df.empty: return out
BosEmpty ==
    /\ UNCHANGED bosOthers
    /\ kpc = "call"
    /\ k_bars = <<>>
    /\ kpc' = "done"
    /\ UNCHANGED <<k_bars, k_highs, k_lows, k_idx, k_last_hi, k_last_lo, k_out>>

\* last_sw_hi = swing_highs[0] if swing_highs else None, and the lows
BosEnter ==
    /\ UNCHANGED bosOthers
    /\ kpc = "call"
    /\ k_bars # <<>>
    /\ k_last_hi' = IF k_highs # <<>> THEN k_highs[1] ELSE -1
    /\ k_last_lo' = IF k_lows # <<>> THEN k_lows[1] ELSE -1
    /\ kpc' = "loop"
    /\ UNCHANGED <<k_bars, k_highs, k_lows, k_idx, k_out>>

\* one row of the loop
BosStep ==
    /\ UNCHANGED bosOthers
    /\ kpc = "loop"
    /\ k_idx < Len(k_bars)
    /\ k_out' = k_out
            \o (IF disp_up(k_bars, k_idx, k_last_hi)
                THEN <<[ts |-> k_idx, dir |-> "bull", ref |-> k_last_hi]>> ELSE <<>>)
            \o (IF disp_dn(k_bars, k_idx, k_last_lo)
                THEN <<[ts |-> k_idx, dir |-> "bear", ref |-> k_last_lo]>> ELSE <<>>)
    /\ k_last_hi' = IF InSeq(k_idx, k_highs) THEN k_idx ELSE k_last_hi
    /\ k_last_lo' = IF InSeq(k_idx, k_lows) THEN k_idx ELSE k_last_lo
    /\ k_idx' = k_idx + 1
    /\ UNCHANGED <<k_bars, k_highs, k_lows, kpc>>

BosReturn ==
    /\ UNCHANGED bosOthers
    /\ kpc = "loop"
    /\ k_idx = Len(k_bars)
    /\ kpc' = "done"
    /\ UNCHANGED <<k_bars, k_highs, k_lows, k_idx, k_last_hi, k_last_lo, k_out>>

BosNext == BosEmpty \/ BosEnter \/ BosStep \/ BosReturn

BosSpec == BosInit /\ [][BosNext]_vars

\* C21: every event of bos refers to a swing whose timestamp is earlier
\* than that of the bar it fires on, the events are in ascending bar
\* order, and a bar has at most one event per direction.
C21_PriorSwing ==
    /\ \A e \in DOMAIN k_out : k_out[e].ref < k_out[e].ts
    /\ \A e, f \in DOMAIN k_out : e < f => k_out[e].ts <= k_out[f].ts
    /\ \A e, f \in DOMAIN k_out :
           (k_out[e].ts = k_out[f].ts /\ k_out[e].dir = k_out[f].dir) => e = f

\* the order and the one-event-per-direction parts of C21 alone
BosOrdered ==
    /\ \A e, f \in DOMAIN k_out : e < f => k_out[e].ts <= k_out[f].ts
    /\ \A e, f \in DOMAIN k_out :
           (k_out[e].ts = k_out[f].ts /\ k_out[e].dir = k_out[f].dir) => e = f

\* an event fired after the loop passed a swing of its side refers to an
\* earlier bar
BosLaterRefs ==
    \A e \in DOMAIN k_out :
        LET side == IF k_out[e].dir = "bull" THEN k_highs ELSE k_lows
        IN  k_out[e].ts > side[1] => k_out[e].ref < k_out[e].ts

\* ================================================================= journal
MaxJournal == 4

\* the rows build_entry / build_watchlist give, by two of their fields
JournalDicts == {[symbol |-> s, score |-> 90] : s \in {"SPY", "QQQ"}}

\* csv.DictWriter.writeheader: the line of the field names
HeaderLine == [symbol |-> Str("symbol"), score |-> Str("score")]

\* csv.DictWriter.writerow: every value as its text
writerow(r) == [symbol |-> Str(r.symbol), score |-> Num(r.score)]

RECURSIVE writerows(_)
writerows(rs) == IF rs = <<>> THEN <<>> ELSE <<writerow(Head(rs))>> \o writerows(Tail(rs))

\* list(csv.DictReader(f)): the first line names the fields, every other
\* line is a row
DictReader(lines) == IF lines = <<>> THEN <<>> ELSE Tail(lines)

\* rows[-n:]: -0 is 0, so n = 0 slices from the start
rows_tail(rows, n) ==
    IF n = 0 THEN rows
    ELSE IF n >= Len(rows) THEN rows
    ELSE SubSeq(rows, Len(rows) - n + 1, Len(rows))

\* open(PATH, "a") and the header of a file that was not there
opened(there, lines) == IF there THEN lines ELSE <<HeaderLine>>

JournalInit ==
    /\ OldIdle
    /\ RestIdleBut({"journal"})
    /\ j_exists = FALSE
    /\ j_file = <<>>
    /\ j_written = <<>>
    /\ j_n = -1
    /\ j_ret = <<>>
    /\ jpc = "ready"

append_row(r) ==
    /\ UNCHANGED jrnOthers
    /\ jpc = "ready"
    /\ Len(j_written) < MaxJournal
    /\ j_file' = Append(opened(j_exists, j_file), writerow(r))
    /\ j_exists' = TRUE
    /\ j_written' = Append(j_written, r)
    /\ j_n' = -1
    /\ j_ret' = <<>>
    /\ UNCHANGED jpc

append_rows(rs) ==
    /\ UNCHANGED jrnOthers
    /\ jpc = "ready"
    /\ Len(j_written) + Len(rs) <= MaxJournal
    /\ j_file' = opened(j_exists, j_file) \o writerows(rs)
    /\ j_exists' = TRUE
    /\ j_written' = j_written \o rs
    /\ j_n' = -1
    /\ j_ret' = <<>>
    /\ UNCHANGED jpc

\* GH_ENABLED is off (GH_REPO and GH_TOKEN default to ""), so nothing is
\* fetched when the file is missing
read_last(n) ==
    /\ UNCHANGED jrnOthers
    /\ jpc = "ready"
    /\ j_n' = n
    /\ j_ret' = IF j_exists THEN rows_tail(DictReader(j_file), n) ELSE <<>>
    /\ UNCHANGED <<j_exists, j_file, j_written, jpc>>

JournalNext ==
    \/ \E r \in JournalDicts : append_row(r)
    \/ \E rs \in SeqsUpTo(JournalDicts, 2) : append_rows(rs)
    \/ \E n \in 0..(MaxJournal + 1) : read_last(n)

JournalSpec == JournalInit /\ [][JournalNext]_vars

\* the last min(n, Len(q)) elements of q
MostRecent(q, n) == SubSeq(q, Len(q) - Min(n, Len(q)) + 1, Len(q))

HeaderOnce ==
    j_exists => /\ j_file[1] = HeaderLine
                /\ \A k \in 2..Len(j_file) : j_file[k] # HeaderLine

\* C24: after any appends, read_last(n) returns exactly the min(n, rows
\* written) most recently appended rows, in append order, for every n >= 0;
\* the file is its header, once, followed by every row ever appended.
C24_ReadLast ==
    /\ HeaderOnce
    /\ j_exists => Tail(j_file) = writerows(j_written)
    /\ j_n >= 0 => j_ret = writerows(MostRecent(j_written, j_n))

\* the same for n >= 1
JournalReadsPositive ==
    /\ HeaderOnce
    /\ j_exists => Tail(j_file) = writerows(j_written)
    /\ j_n >= 1 => j_ret = writerows(MostRecent(j_written, j_n))

\* ======================================================== equal_highs_lows
MaxEqBars == 3

\* a price in cents; a tolerance in millionths (0.001 is 1000)
Cents(d, c) == d * 100 + c

Million == 1000000

Tols == {1000, 100}

EqBars ==
    { [high |-> h, low |-> l] :
        h \in {Cents(99, 95), Cents(100, 0), Cents(100, 5), Cents(100, 20)},
        l \in {0, Cents(99, 90), Cents(99, 95)} }

\* x.iloc[i] and x.iloc[i - 1], then abs(x.iloc[i] - x.iloc[i - 1]) / x.iloc[i] <= tol
within_tol(prev, cur, tol) ==
    /\ cur # 0
    /\ prev # 0
    /\ Abs(cur - prev) * Million <= tol * cur

eq_high_Later(prev, cur) == cur

\* float(max(H.iloc[i], H.iloc[i - 1]))
eq_high(prev, cur) == Max(prev, cur)

\* float(min(L.iloc[i], L.iloc[i - 1]))
eq_low(prev, cur) == Min(prev, cur)

SeqToSet(q) == {q[k] : k \in DOMAIN q}

EqualInit ==
    /\ OldIdle
    /\ RestIdleBut({"equal"})
    /\ e_df \in SeqsUpTo(EqBars, MaxEqBars)
    /\ e_tol \in Tols
    /\ e_i = 1
    /\ e_eqh = <<>>
    /\ e_eql = <<>>
    /\ e_ret = NoLevels
    /\ epc = "loop"

\* one pass of the loop body
EqStep ==
    /\ UNCHANGED eqOthers
    /\ epc = "loop"
    /\ e_i < Len(e_df)
    /\ LET ph == H(e_df, e_i - 1)
           ch == H(e_df, e_i)
           pl == L(e_df, e_i - 1)
           cl == L(e_df, e_i)
       IN  /\ e_eqh' = IF within_tol(ph, ch, e_tol)
                       THEN Append(e_eqh, eq_high(ph, ch)) ELSE e_eqh
           /\ e_eql' = IF within_tol(pl, cl, e_tol)
                       THEN Append(e_eql, eq_low(pl, cl)) ELSE e_eql
    /\ e_i' = e_i + 1
    /\ UNCHANGED <<e_df, e_tol, e_ret, epc>>

\* return sorted(set(eqh)), sorted(set(eql))
EqReturn ==
    /\ UNCHANGED eqOthers
    /\ epc = "loop"
    /\ e_i >= Len(e_df)
    /\ e_ret' = [eqh |-> Ascending(SeqToSet(e_eqh)), eql |-> Ascending(SeqToSet(e_eql))]
    /\ epc' = "done"
    /\ UNCHANGED <<e_df, e_tol, e_i, e_eqh, e_eql>>

EqualNext == EqStep \/ EqReturn

EqualSpec == EqualInit /\ [][EqualNext]_vars

\* the adjacent pairs (k, k + 1) of the frame, 1-based
AdjacentPairs == {k \in 1..(Len(e_df) - 1) : TRUE}

\* |b - a| / b <= tol for the later value b, in exact arithmetic
RelativelyEqual(a, b) == b > 0 /\ a > 0 /\ Abs(b - a) * Million <= e_tol * b

ClaimedHighs ==
    { Max(e_df[k].high, e_df[k + 1].high) :
        k \in {p \in AdjacentPairs : RelativelyEqual(e_df[p].high, e_df[p + 1].high)} }

ClaimedLows ==
    { Min(e_df[k].low, e_df[k + 1].low) :
        k \in {p \in AdjacentPairs : RelativelyEqual(e_df[p].low, e_df[p + 1].low)} }

StrictlyAscending(q) == \A a, b \in DOMAIN q : a < b => q[a] < q[b]

\* C26: equal_highs_lows returns, per side, the strictly ascending list of
\* the levels of the adjacent pairs that differ by at most tol of the later
\* bar's value: the larger high of such a pair, the smaller low; highs
\* 100.00 then 100.05 give 100.05 with tol 0.001 and nothing with 0.0001.
C26_EqualLevels ==
    epc = "done" =>
        /\ StrictlyAscending(e_ret.eqh)
        /\ StrictlyAscending(e_ret.eql)
        /\ SeqToSet(e_ret.eqh) = ClaimedHighs
        /\ SeqToSet(e_ret.eql) = ClaimedLows
        /\ (Len(e_df) = 2 /\ e_df[1].high = Cents(100, 0) /\ e_df[2].high = Cents(100, 5))
               => e_ret.eqh = IF e_tol = 1000 THEN <<Cents(100, 5)>> ELSE <<>>

C26_Witness ==
    /\ epc = "done"
    /\ e_tol = 1000
    /\ Len(e_df) = 3
    /\ e_df[1].high = Cents(100, 0) /\ e_df[2].high = Cents(100, 5)
    /\ e_df[3].high = Cents(100, 0)
    /\ e_ret.eqh = <<Cents(100, 5)>>
    /\ Len(e_ret.eql) = 1

\* ================================================================== notify
MaxAnswers == 2

\* an answer of the webhook: a status code, or 0 when the request fails
\* in transit
Answers == {0, 200, 204, 429, 500}

Scripts == SeqsUpTo(Answers, MaxAnswers) \ {<<>>}

\* r = await x.post(...); r.raise_for_status(): an error in transit and
\* every status outside 2xx raise
post_ok(answer) == answer >= 200 /\ answer < 300

NotifyInit ==
    /\ OldIdle
    /\ RestIdleBut({"notify"})
    /\ n_fn \in {"watchlist", "entry"}
    /\ n_script \in Scripts
    /\ n_posts = 0
    /\ n_result = "none"
    /\ npc = "call"

\* one POST, whose answer decides the call
_post ==
    /\ n_posts' = n_posts + 1
    /\ n_result' = IF post_ok(n_script[n_posts + 1]) THEN "ok" ELSE "raised"
    /\ npc' = "done"
    /\ UNCHANGED <<n_fn, n_script>>

\* await _post(WL, ...)
send_watchlist ==
    /\ UNCHANGED notOthers
    /\ npc = "call"
    /\ n_fn = "watchlist"
    /\ _post

\* await _post(EN, ...): the sender of entry alerts
send_entry ==
    /\ UNCHANGED notOthers
    /\ npc = "call"
    /\ n_fn = "entry"
    /\ _post

NotifyNext == send_watchlist \/ send_entry

NotifySpec == NotifyInit /\ [][NotifyNext]_vars

\* C25: an entry alert answered 429 and then 204 is retried and completes
\* without raising; a watchlist post answered 204 at once succeeds.
C25_RetryAfter429 ==
    npc = "done" =>
        /\ (n_fn = "entry" /\ n_script = <<429, 204>>)
               => (n_result = "ok" /\ n_posts = 2)
        /\ (n_fn = "watchlist" /\ n_script[1] = 204) => n_result = "ok"

\* the second half of C25 alone
WatchlistFirst204 ==
    (npc = "done" /\ n_fn = "watchlist" /\ n_script[1] = 204)
        => (n_result = "ok" /\ n_posts = 1)

\* ========================================================== post_watchlist
MaxPostRows == 6

\* rows[:20] of the watchlist post and the snapshot, rows[:5] of the entries
TopWatch == 20

TopEntries == 5

Kinds == {"premarket", "evening", "weekly"}

\* the rows of generate, best first, named by their rank
RowsOf(n) == [k \in 1..n |-> k]

\* q[:n]
First(q, n) == SubSeq(q, 1, Min(n, Len(q)))

\* the call of post_watchlist that raises: generate (Polygon() without a
\* key), send_watchlist, journal.append_rows, or the k-th send_entry_detail
\* or journal.append_row
FailPoints ==
    {NoFail}
    \cup {[at |-> a, k |-> 0] : a \in {"generate", "send_watchlist", "append_rows"}}
    \cup {[at |-> a, k |-> k] : a \in {"send_entry_detail", "append_row"}, k \in 1..TopEntries}

ExcOf(at) ==
    IF at = "generate" THEN "RuntimeError"
    ELSE IF at \in {"send_watchlist", "send_entry_detail"} THEN "HTTPStatusError"
    ELSE "OSError"

Line(t, r) == [line |-> t, row |-> r]

body_Empty(rows) == [k \in 1..Len(First(rows, TopWatch)) |-> Line("setup", rows[k])]

\* [_fmt(r) for r in rows[:20]] or ["No Setups (...)"]
body(rows) ==
    IF First(rows, TopWatch) = <<>> THEN <<Line("No Setups", 0)>>
    ELSE [k \in 1..Len(First(rows, TopWatch)) |-> Line("setup", rows[k])]

\* journal.build_watchlist(kind, rows[:20])
build_watchlist(kind, rows) ==
    [k \in 1..Len(rows) |-> [kind |-> "watchlist", of |-> kind, symbol |-> rows[k]]]

\* journal.build_entry("entry", {...})
build_entry(kind, r) == [kind |-> "entry", of |-> kind, symbol |-> r]

\* the loop over rows[:5]: the alerts sent and the rows journalled up to the
\* call that raises, if one is reached
entries_loop(kind, top, fail) ==
    LET reached == fail.at \in {"send_entry_detail", "append_row"} /\ fail.k <= Len(top)
        sent == IF reached THEN fail.k ELSE Len(top)
        kept == IF reached THEN fail.k - 1 ELSE Len(top)
    IN  [entries |-> [k \in 1..sent |->
                         [symbol |-> top[k],
                          delivered |-> ~(reached /\ fail.at = "send_entry_detail" /\ k = fail.k)]],
         journal |-> [k \in 1..kept |-> build_entry(kind, top[k])],
         exc |-> IF reached THEN ExcOf(fail.at) ELSE "none"]

post_watchlist(kind, rows, blocking, fail) ==
    LET wl == [lines |-> <<Line("macro", 0), Line("sectors", 0)>> \o body(rows),
               delivered |-> fail.at # "send_watchlist"]
        snapshot == IF rows # <<>> THEN build_watchlist(kind, First(rows, TopWatch)) ELSE <<>>
        loop == entries_loop(kind, First(rows, TopEntries), fail)
    IN  IF fail.at = "generate"
        THEN [wl |-> <<>>, entries |-> <<>>, journal |-> <<>>, exc |-> ExcOf(fail.at)]
        ELSE IF fail.at = "send_watchlist"
        THEN [wl |-> <<wl>>, entries |-> <<>>, journal |-> <<>>, exc |-> ExcOf(fail.at)]
        ELSE IF rows # <<>> /\ fail.at = "append_rows"
        THEN [wl |-> <<wl>>, entries |-> <<>>, journal |-> <<>>, exc |-> ExcOf(fail.at)]
        ELSE IF blocking
        THEN [wl |-> <<wl>>, entries |-> <<>>, journal |-> snapshot, exc |-> "none"]
        ELSE [wl |-> <<wl>>, entries |-> loop.entries,
              journal |-> snapshot \o loop.journal, exc |-> loop.exc]

PostInit ==
    /\ OldIdle
    /\ RestIdleBut({"post"})
    /\ p_kind \in Kinds
    /\ p_rows \in {RowsOf(n) : n \in 0..MaxPostRows}
    /\ p_blocking \in BOOLEAN
    /\ p_fail \in FailPoints
    /\ p_res = NoPost
    /\ ppc = "call"

PostCall ==
    /\ UNCHANGED postOthers
    /\ ppc = "call"
    /\ p_res' = post_watchlist(p_kind, p_rows, p_blocking, p_fail)
    /\ ppc' = "done"
    /\ UNCHANGED <<p_kind, p_rows, p_blocking, p_fail>>

PostNext == PostCall

PostSpec == PostInit /\ [][PostNext]_vars

\* C22: a post_watchlist whose scan completed with no setup makes exactly
\* one watchlist post, whose body is the "No Setups" line (delivered unless
\* the webhook refuses it), sends no entry alert and appends no journal row.
C22_NoSetupsPost ==
    (ppc = "done" /\ p_rows = <<>> /\ p_fail.at # "generate") =>
        /\ Len(p_res.wl) = 1
        /\ p_res.wl[1].lines = <<Line("macro", 0), Line("sectors", 0), Line("No Setups", 0)>>
        /\ p_res.wl[1].delivered = (p_fail.at # "send_watchlist")
        /\ p_res.entries = <<>>
        /\ p_res.journal = <<>>

C22_Witness ==
    /\ ppc = "done" /\ p_rows = <<>> /\ p_fail = NoFail /\ ~p_blocking
    /\ p_res.exc = "none" /\ Len(p_res.wl) = 1 /\ p_res.wl[1].delivered

\* =============================================================== scheduler
\* the last day of the model's clock; day d is weekday d % 7, Monday 0
MaxDay == 6

Friday == 4

\* 06:30, 13:00 and 06:00 as minutes of the day
PreMinute == 390

EveMinute == 780

WkMinute == 360

\* asyncio.sleep(20)
SleepSeconds == 20

Minutes == {WkMinute, PreMinute, EveMinute, EveMinute + 1}

Seconds == {0, SleepSeconds, 2 * SleepSeconds}

Clock == [day : Friday..MaxDay, minute : Minutes, sec : Seconds]

\* the clock after sleep(20), and whatever the jobs of the tick took
AfterSleep(a, b) ==
    \/ b.day > a.day
    \/ b.day = a.day /\ b.minute > a.minute
    \/ b.day = a.day /\ b.minute = a.minute /\ b.sec >= a.sec + SleepSeconds

SlotMinute(s) ==
    IF s = "premarket" THEN PreMinute ELSE IF s = "evening" THEN EveMinute ELSE WkMinute

\* wd < 5 (premarket, evening) or wd == 6 (weekly), the hour and the minute
on_time(s, now) ==
    /\ IF s = "weekly" THEN now.day % 7 = 6 ELSE now.day % 7 < 5
    /\ now.minute = SlotMinute(s)

\* the condition of a slot's if
due(s, now, last) == on_time(s, now) /\ last[s] # now.day

caught_OnlyHttp(exc) == exc = "HTTPStatusError"

\* except Exception: every error the jobs raise derives from Exception
caught(exc) == exc \in {"RuntimeError", "HTTPStatusError", "OSError"}

\* the posts of a run that the webhook accepted
Delivered(res) == Len(SelectSeq(res.wl, LAMBDA w : w.delivered))

JobFails == {f \in FailPoints : f.k <= 1}

SchedInit ==
    /\ OldIdle
    /\ RestIdleBut({"sched"})
    /\ h_now \in {c \in Clock : c.day = Friday}
    /\ h_last = [s \in Slots |-> -1]
    /\ h_saved = {}
    /\ h_errors = 0
    /\ h_runs = [s \in Slots |-> 0]
    /\ h_sent = [s \in Slots |-> 0]
    /\ hpc = "loop"

\* the sleep that ends a tick: the per-day counts start again on a new day
Sleep(ran, posted) ==
    \E c \in Clock :
        /\ AfterSleep(h_now, c)
        /\ h_now' = c
        /\ h_runs' = IF c.day = h_now.day THEN ran ELSE [s \in Slots |-> 0]
        /\ h_sent' = IF c.day = h_now.day THEN posted ELSE [s \in Slots |-> 0]

\* a tick on which no slot is due
TickQuiet ==
    /\ UNCHANGED schedOthers
    /\ hpc = "loop"
    /\ \A s \in Slots : ~due(s, h_now, h_last)
    /\ Sleep(h_runs, h_sent)
    /\ UNCHANGED <<h_last, h_saved, h_errors, hpc>>

\* a tick on which slot s is due (the three times differ, so one slot at
\* most): its job runs post_watchlist, then _save_last_run, and the tick
\* sets last[s]; a job that raises leaves last[s] alone
TickJob(s) ==
    /\ UNCHANGED schedOthers
    /\ hpc = "loop"
    /\ due(s, h_now, h_last)
    /\ \E n \in 0..1, blocking \in BOOLEAN, fail \in JobFails :
        LET res == post_watchlist(s, RowsOf(n), blocking, fail)
            ran == [h_runs EXCEPT ![s] = @ + 1]
            posted == [h_sent EXCEPT ![s] = @ + Delivered(res)]
        IN  IF res.exc = "none"
            THEN /\ h_last' = [h_last EXCEPT ![s] = h_now.day]
                 /\ h_saved' = h_saved \cup {s}
                 /\ Sleep(ran, posted)
                 /\ UNCHANGED <<h_errors, hpc>>
            ELSE IF caught(res.exc)
            THEN /\ h_errors' = h_errors + 1
                 /\ Sleep(ran, posted)
                 /\ UNCHANGED <<h_last, h_saved, hpc>>
            ELSE /\ hpc' = "crashed"
                 /\ h_runs' = ran
                 /\ h_sent' = posted
                 /\ UNCHANGED <<h_now, h_last, h_saved, h_errors>>

SchedNext == TickQuiet \/ \E s \in Slots : TickJob(s)

SchedSpec == SchedInit /\ [][SchedNext]_vars

\* C23: no failure of premarket, evening or weekly ends the loop: the error
\* is logged and the loop goes on to its next tick, where slots still fire.
C23_LoopSurvives ==
    /\ [](hpc = "loop")
    /\ [][hpc = "loop" /\ h_errors' = h_errors + 1
            => h_now' # h_now /\ hpc' = "loop"]_vars

\* C29: on any day each slot's job runs at most once, and at most one
\* watchlist post per slot is sent, also when the job raises part-way.
C29_OncePerDay ==
    \A s \in Slots : h_runs[s] <= 1 /\ h_sent[s] <= 1

\* premarket failed on Friday, was never completed, and evening ran that day
C23_Witness ==
    /\ hpc = "loop"
    /\ h_now.day = Friday
    /\ h_last["premarket"] = -1 /\ h_runs["premarket"] >= 1 /\ h_errors >= 1
    /\ h_last["evening"] = Friday /\ "evening" \in h_saved

\* =============================================================== live_loop
MaxWatch == 3

\* LIVE_START_PT 06:30 and LIVE_END_PT 13:00 as minutes of the day
LiveStart == 390

LiveEnd == 780

\* LIVE_TOL_FRAC is 0.0005, one part in TolParts
TolParts == 2000

\* the rows of generate("premarket"), named by rank; prices in cents
LiveRow(s) ==
    [symbol |-> s,
     direction |-> IF s % 2 = 1 THEN "long" ELSE "short",
     entry |-> IF s = 1 THEN 10000 ELSE 5000]

\* _last_price: the latest close, or None (-1)
LivePrices == {-1, 4990, 9996}

\* _now_pt(): weekday and minute of the day
LiveClock == [wd : {4, 5}, minute : {LiveStart - 1, LiveStart, LiveEnd - 1, LiveEnd}]

\* (wd < 5) and (cur >= start_t) and (cur < end_t)
in_hours(now) == now.wd < 5 /\ now.minute >= LiveStart /\ now.minute < LiveEnd

\* price >= entry * (1 - tol) for a long, price <= entry * (1 + tol) otherwise
_triggered(price, entry, direction) ==
    IF price = -1 THEN FALSE
    ELSE IF direction = "long" THEN price * TolParts >= entry * (TolParts - 1)
    ELSE price * TolParts <= entry * (TolParts + 1)

tasks_of_All(watch, posted) == watch

\* for sym, r in watch.items(): if sym in posted: continue
tasks_of(watch, posted) == SelectSeq(watch, LAMBDA s : s \notin posted)

RECURSIVE poll_loop(_, _, _, _, _)
\* the loop over tasks: st carries posted, the alerts and whether a
\* send_entry_detail raised (which ends live_loop)
poll_loop(tasks, prices, raises, tag, st) ==
    IF tasks = <<>> \/ st.raised THEN st
    ELSE LET s == Head(tasks)
             r == LiveRow(s)
         IN  IF _triggered(prices[s], r.entry, r.direction)
             THEN IF s \in raises
                  THEN [st EXCEPT !.raised = TRUE]
                  ELSE poll_loop(Tail(tasks), prices, raises, tag,
                           [st EXCEPT !.posted = @ \cup {s},
                                      !.alerts = Append(@, [symbol |-> s, now |-> tag.now,
                                                            blocking |-> tag.blocking])])
             ELSE poll_loop(Tail(tasks), prices, raises, tag, st)

LiveInit ==
    /\ OldIdle
    /\ RestIdleBut({"live"})
    /\ v_rows \in {RowsOf(n) : n \in 0..MaxWatch}
    /\ v_watch = <<>>
    /\ v_posted = {}
    /\ v_polled = {}
    /\ v_alerts = <<>>
    /\ vpc = "call"

\* rows = await live_once(); if not rows: ... return
LiveNoRows ==
    /\ UNCHANGED liveOthers
    /\ vpc = "call"
    /\ v_rows = <<>>
    /\ vpc' = "returned"
    /\ UNCHANGED <<v_rows, v_watch, v_posted, v_polled, v_alerts>>

\* watch = {r["symbol"]: r for r in rows}; posted = set()
LiveStartLoop ==
    /\ UNCHANGED liveOthers
    /\ vpc = "call"
    /\ v_rows # <<>>
    /\ v_watch' = v_rows
    /\ v_posted' = {}
    /\ vpc' = "loop"
    /\ UNCHANGED <<v_rows, v_polled, v_alerts>>

\* an iteration that ends at `continue`: out of hours, or a macro block
LiveSkip ==
    /\ UNCHANGED liveOthers
    /\ vpc = "loop"
    /\ \E now \in LiveClock, blocking \in BOOLEAN :
           ~in_hours(now) \/ blocking
    /\ v_polled' = {}
    /\ UNCHANGED <<v_rows, v_watch, v_posted, v_alerts, vpc>>

\* an iteration that polls: prices gives each symbol's last price, raises
\* the symbol whose send_entry_detail would raise, if one would
LivePoll ==
    /\ UNCHANGED liveOthers
    /\ vpc = "loop"
    /\ \E now \in LiveClock, prices \in [1..MaxWatch -> LivePrices],
          raises \in {{}} \cup {{s} : s \in 1..MaxWatch} :
        /\ in_hours(now)
        /\ LET tasks == tasks_of(v_watch, v_posted)
               st == poll_loop(tasks, prices, raises, [now |-> now, blocking |-> FALSE],
                               [posted |-> v_posted, alerts |-> v_alerts, raised |-> FALSE])
           IN  /\ v_polled' = {tasks[k] : k \in DOMAIN tasks}
               /\ v_posted' = st.posted
               /\ v_alerts' = st.alerts
               /\ vpc' = IF st.raised THEN "raised"
                         ELSE IF Cardinality(st.posted) = Len(v_watch) /\ Len(v_watch) > 0
                         THEN "returned" ELSE "loop"
    /\ UNCHANGED <<v_rows, v_watch>>

LiveNext == LiveNoRows \/ LiveStartLoop \/ LiveSkip \/ LivePoll

LiveSpec == LiveInit /\ [][LiveNext]_vars

WatchSet == {v_watch[k] : k \in DOMAIN v_watch}

\* a weekday between 06:30 and 13:00
InWindow(now) == now.wd \in 0..4 /\ LiveStart <= now.minute /\ now.minute < LiveEnd

\* C27: live_loop alerts a watched symbol at most once and never polls a
\* posted symbol again, sends no alert in an iteration outside the weekday
\* window or under a macro block, and returns once every watched symbol
\* has been posted.
C27_LiveOnce ==
    /\ [](/\ \A a, b \in DOMAIN v_alerts :
                 v_alerts[a].symbol = v_alerts[b].symbol => a = b
          /\ \A a \in DOMAIN v_alerts :
                 /\ v_alerts[a].symbol \in WatchSet
                 /\ InWindow(v_alerts[a].now)
                 /\ ~v_alerts[a].blocking
          /\ (vpc = "loop" => v_posted # WatchSet)
          /\ (vpc = "returned" => v_posted = WatchSet))
    /\ [][v_polled' \cap v_posted = {}]_vars

C27_Witness ==
    /\ vpc = "returned"
    /\ Len(v_watch) = 3
    /\ Len(v_alerts) = 3
    /\ v_alerts[1].symbol = 2
    /\ v_alerts[1].now.minute # v_alerts[3].now.minute

====
